---- MODULE Spec2Model ----
(***************************************************************************)
(* A model of the .NET debug-launch pipeline: the task locator             *)
(* (crates/project/src/debugger/locators/dotnet.rs), the vsdbg debug       *)
(* adapter (crates/dap_adapters/src/dotnet.rs), the solution parser        *)
(* (crates/languages/src/csharp.rs) and the startup-project actions of the *)
(* solution explorer panel (crates/solution_explorer).                     *)
(*                                                                         *)
(* Text is modelled by TLA+ strings; the Rust string methods the code uses *)
(* (find, trim, lines, split, starts_with, ...) are operators over them.   *)
(* A position is 1-based; 0 stands for Rust's None of find().              *)
(***************************************************************************)
EXTENDS Integers, Sequences, FiniteSets, TLC

(***************************************************************************)
(* Bounds                                                                  *)
(***************************************************************************)
\* the number of lines the build writes to stdout, at most
MaxOutLines == 2
\* the number of chunks the build writes to stderr, at most
MaxErrChunks == 2
\* the number of chunks an OS pipe holds before a write to it blocks
PipeCap == 1
\* the number of arguments of a task template, at most
MaxArgs == 3
\* the number of lines of a solution file (after the root element, in markup), at most
MaxSlnLines == 3
\* the number of get_binary calls on one adapter, at most
MaxCalls == 2
\* the number of PackageReference elements of a project descriptor, at most
MaxRefs == 2

(***************************************************************************)
(* State                                                                   *)
(***************************************************************************)
VARIABLES
    \* DotNetLocator::run and the build process it spawns
    task,       \* the resolved task handed to run(): [cwd, args]
    spawned,    \* the build processes run() has spawned: [program, args] each
    rpc,        \* where run() is: start, read_stdout, read_stderr, wait, done
    childOut,   \* the chunks the build process writes to stdout, in order
    childErr,   \* the chunks the build process writes to stderr, in order
    code,       \* the exit code of the build process
    wOut,       \* how many stdout chunks the child has written
    wErr,       \* how many stderr chunks the child has written
    pipeOut,    \* the stdout pipe: written, not yet read
    pipeErr,    \* the stderr pipe: written, not yet read
    exited,     \* the child has exited (both write ends are closed)
    stdout,     \* run()'s `stdout` String
    stderr,     \* run()'s `stderr` String
    files,      \* the regular files on disk once the build has exited
    probed,     \* the paths run() asked the file system about
    result,     \* what run() returned
    \* DotNetLocator::create_scenario
    template,   \* the TaskTemplate handed to create_scenario
    spc,        \* where create_scenario is: start, done
    scenario,   \* its Option<DebugScenario>: {} is None, {s} is Some(s)
    \* SolutionExplorerPanel
    content,    \* the text of the solution file on disk
    disk,       \* the project descriptors on disk when the load task runs
    lpc,        \* where the load task is: start, done
    parsed,     \* what SolutionFile::parse returned to the load task
    solution,   \* panel.state.solution: {} is None, {sol} is Some(sol)
    menu,       \* the open context menu of a project node, NoMenu when closed
    \* DotNetDebugAdapter::get_binary
    config,     \* the configuration map of the DebugTaskDefinition
    user_path,  \* user_installed_path: None or a path
    which,      \* what the PATH lookup `which vsdbg` answers
    binFiles,   \* the debugger binaries on disk
    cell,       \* DotNetDebugAdapter::vsdbg_path, the OnceCell: None or a path
    apc,        \* where get_binary is: start, which, done
    calls,      \* how many get_binary calls have been made
    fetched,    \* what fetch_vsdbg returned in this call, NoFetch while it has not run
    resolved,   \* what vsdbg_path returned in this call, NoFetch while it has not run
    earlier,    \* what the latest vsdbg_path of the earlier calls returned, NoFetch if none ran
    binary,     \* what get_binary returned
    \* parse_csproj_packages
    refs,       \* the PackageReference elements the descriptor is written from
    descriptor, \* the text of the project descriptor (.csproj)
    kpc,        \* where parse_csproj_packages is: start, done
    packages,   \* what it returned
    \* SolutionFile::parse, called twice
    doc,        \* the content handed to the first call
    again,      \* the content handed to the second call
    first,      \* what the first call returned
    second,     \* what the second call returned
    ppc,        \* how far the two calls are: start, once, twice
    \* SolutionFile::get_executable_projects
    opened,     \* the SolutionFile the accessor is called on
    xpc,        \* where the accessor is: start, done
    executables, \* what get_executable_projects returned
    \* DotNetDebugAdapter::vsdbg_path, called concurrently
    vpc,        \* where each caller's vsdbg_path is: start, fetch, init, done
    got,        \* each caller's `path`, the result of its fetch_vsdbg
    returned,   \* what vsdbg_path returned to each caller
    \* SolutionExplorerPanel: the tree
    expanded_projects,  \* state.expanded_projects: project guids
    expanded_packages,  \* state.expanded_packages: guids of projects with packages shown
    selected_nodes      \* state.selected_nodes

locVars == <<task, spawned, rpc, childOut, childErr, code, wOut, wErr, pipeOut, pipeErr,
             exited, stdout, stderr, files, probed, result>>

scnVars == <<template, spc, scenario>>

slnVars == <<content, disk, lpc, parsed, solution, menu>>

adpVars == <<config, user_path, which, binFiles, cell, apc, calls, fetched, resolved,
             earlier, binary>>

pkgVars == <<refs, descriptor, kpc, packages>>

prsVars == <<doc, again, first, second, ppc>>

accVars == <<opened, xpc, executables>>

conVars == <<vpc, got, returned>>

treVars == <<expanded_projects, expanded_packages, selected_nodes>>

vars == <<locVars, scnVars, slnVars, adpVars, pkgVars, prsVars, accVars, conVars, treVars>>

(***************************************************************************)
(* str: the string methods the code calls                                  *)
(***************************************************************************)
None == "<none>"

\* Result<T>: Ok(value) and Err(message) of anyhow
Ok(v) == [ok |-> TRUE, val |-> v]

Fail(m) == [ok |-> FALSE, val |-> m]

IsWhite(c) == c \in {" ", "\t", "\n", "\r"}

Ch(s, i) == SubSeq(s, i, i)

\* s[from..] of Rust, `from` 1-based here
Suffix(s, from) == SubSeq(s, from, Len(s))

starts_with(s, p) == Len(p) <= Len(s) /\ SubSeq(s, 1, Len(p)) = p

ends_with(s, p) == Len(p) <= Len(s) /\ SubSeq(s, Len(s) - Len(p) + 1, Len(s)) = p

\* str::find: the position of the first occurrence of p in s, 0 when none
find(s, p) ==
    LET hits == {i \in 1..(Len(s) - Len(p) + 1) : SubSeq(s, i, i + Len(p) - 1) = p}
    IN  IF hits = {} THEN 0 ELSE CHOOSE i \in hits : \A j \in hits : i <= j

contains(s, p) == find(s, p) # 0

\* the position of the first character from i on that is not white space,
\* Len(s) + 1 when there is none
RECURSIVE skip_white(_, _)
skip_white(s, i) ==
    IF i > Len(s) \/ ~IsWhite(Ch(s, i)) THEN i ELSE skip_white(s, i + 1)

\* the position of the last character up to i that is not white space, 0
\* when there is none
RECURSIVE skip_white_back(_, _)
skip_white_back(s, i) ==
    IF i = 0 \/ ~IsWhite(Ch(s, i)) THEN i ELSE skip_white_back(s, i - 1)

trim_start(s) == Suffix(s, skip_white(s, 1))

trim_end(s) == SubSeq(s, 1, skip_white_back(s, Len(s)))

trim(s) == trim_end(trim_start(s))

\* str::trim_matches(c): c stripped from both ends
RECURSIVE skip_char(_, _, _)
skip_char(s, c, i) ==
    IF i > Len(s) \/ Ch(s, i) # c THEN i ELSE skip_char(s, c, i + 1)

RECURSIVE skip_char_back(_, _, _)
skip_char_back(s, c, i) ==
    IF i = 0 \/ Ch(s, i) # c THEN i ELSE skip_char_back(s, c, i - 1)

trim_matches(s, c) == SubSeq(s, skip_char(s, c, 1), skip_char_back(s, c, Len(s)))

\* str::split(c): the pieces between the occurrences of c, in order
RECURSIVE split(_, _)
split(s, c) ==
    LET at == find(s, c)
    IN  IF at = 0 THEN <<s>>
        ELSE <<SubSeq(s, 1, at - 1)>> \o split(Suffix(s, at + 1), c)

\* str::lines: split at "\n", a final empty piece dropped, one trailing "\r"
\* of each line dropped
StripCr(l) == IF ends_with(l, "\r") THEN SubSeq(l, 1, Len(l) - 1) ELSE l

lines(s) ==
    LET pieces == split(s, "\n")
        kept   == IF pieces[Len(pieces)] = "" THEN SubSeq(pieces, 1, Len(pieces) - 1)
                  ELSE pieces
    IN  [i \in 1..Len(kept) |-> StripCr(kept[i])]

RECURSIVE Concat(_)
Concat(ss) == IF ss = <<>> THEN "" ELSE Head(ss) \o Concat(Tail(ss))

\* the sequences over S of length at most n
SeqsUpTo(S, n) == UNION {[1..k -> S] : k \in 0..n}

(***************************************************************************)
(* Paths and the file system                                               *)
(***************************************************************************)
\* str::rfind of one character: the position of its last occurrence, 0 when none
rfind(s, c) ==
    LET hits == {i \in 1..Len(s) : Ch(s, i) = c}
    IN  IF hits = {} THEN 0 ELSE CHOOSE i \in hits : \A j \in hits : i >= j

\* Path::is_absolute (Unix)
is_absolute(p) == starts_with(p, "/")

\* Path::join: an absolute argument replaces the base
join(base, p) ==
    IF is_absolute(p) THEN p
    ELSE IF ends_with(base, "/") THEN base \o p ELSE base \o "/" \o p

\* Path::parent and Path::file_name of the path of a file
parent(p) == SubSeq(p, 1, rfind(p, "/") - 1)

file_name(p) == Suffix(p, rfind(p, "/") + 1)

\* Path::exists over the regular fs `fs`: the file itself, or a
\* directory on the way to one
exists(fs, p) == p \in fs \/ \E f \in fs : starts_with(f, p \o "/")

\* std::fs::read_dir(dir) filtered as the fallback loop filters it: the
\* regular fs directly inside dir whose name ends in .dll
dll_files_in(fs, dir) ==
    {f \in fs : parent(f) = dir /\ ends_with(file_name(f), ".dll")}

(***************************************************************************)
(* TaskLocator, phase 2: DotNetLocator::run and find_dotnet_output_assembly *)
(***************************************************************************)
NoResult == [kind |-> "none", program |-> "", cwd |-> "", args |-> <<>>, msg |-> ""]

\* Ok(DebugRequest::Launch(LaunchRequest { program, cwd: Some(cwd), args: vec![], .. }))
Launch(program, cwd) ==
    [kind |-> "Launch", program |-> program, cwd |-> cwd, args |-> <<>>, msg |-> ""]

Err(msg) == [kind |-> "Err", program |-> "", cwd |-> "", args |-> <<>>, msg |-> msg]

\* the text after the first "->" of a line, trimmed; None without an arrow
assembly_part(line) ==
    LET arrow_pos == find(line, "->")
    IN  IF arrow_pos = 0 THEN None ELSE trim(Suffix(line, arrow_pos + 2))

looks_like_assembly(part) == ends_with(part, ".dll") \/ ends_with(part, ".exe")

\* arrow_scan without its test that the path exists
RECURSIVE arrow_scan_unchecked(_, _, _, _)
arrow_scan_unchecked(ls, i, cwd, fs) ==
    IF i > Len(ls) THEN None
    ELSE LET part == assembly_part(ls[i])
         IN  IF part # None /\ looks_like_assembly(part)
             THEN join(cwd, part)
             ELSE arrow_scan_unchecked(ls, i + 1, cwd, fs)

\* the first loop of find_dotnet_output_assembly from line i on: the path it
\* returns, None when it falls through to the fallback
RECURSIVE arrow_scan(_, _, _, _)
arrow_scan(ls, i, cwd, fs) ==
    IF i > Len(ls) THEN None
    ELSE LET part == assembly_part(ls[i])
         IN  IF part # None /\ looks_like_assembly(part) /\ exists(fs, join(cwd, part))
             THEN join(cwd, part)
             ELSE arrow_scan(ls, i + 1, cwd, fs)

\* possible_output_dirs with the framework directories of Debug ahead of
\* bin/Release
possible_output_dirs_debug_first(cwd) ==
    << join(cwd, "bin/Debug"), join(cwd, "bin/Debug/net6.0"),
       join(cwd, "bin/Debug/net5.0"), join(cwd, "bin/Debug/net8.0"),
       join(cwd, "bin/Release"), join(cwd, "bin/Release/net6.0"),
       join(cwd, "bin/Release/net5.0"), join(cwd, "bin/Release/net8.0") >>

possible_output_dirs(cwd) ==
    << join(cwd, "bin/Debug"), join(cwd, "bin/Release"),
       join(cwd, "bin/Debug/net6.0"), join(cwd, "bin/Debug/net5.0"),
       join(cwd, "bin/Debug/net8.0"), join(cwd, "bin/Release/net6.0"),
       join(cwd, "bin/Release/net5.0"), join(cwd, "bin/Release/net8.0") >>

\* the second loop: the files it may return. read_dir enumerates a directory
\* in an order the file system chooses, so every .dll of the first directory
\* that holds one is a possible answer
fallback_scan(cwd, fs) ==
    LET dirs == possible_output_dirs(cwd)
        hits == {i \in 1..Len(dirs) : dll_files_in(fs, dirs[i]) # {}}
    IN  IF hits = {} THEN {}
        ELSE dll_files_in(fs, dirs[CHOOSE i \in hits : \A j \in hits : i <= j])

\* not_found_message without the build output
not_found_message_bare(output) ==
    "Could not find compiled assembly in dotnet build output.\nBuild output was:\n"

not_found_message(output) ==
    "Could not find compiled assembly in dotnet build output.\nBuild output was:\n"
        \o output

\* find_dotnet_output_assembly: the Result<String> values it may return
find_dotnet_output_assembly(output, cwd, fs) ==
    LET hit == arrow_scan(lines(output), 1, cwd, fs)
    IN  IF hit # None THEN {Ok(hit)}
        ELSE IF fallback_scan(cwd, fs) # {} THEN {Ok(f) : f \in fallback_scan(cwd, fs)}
        ELSE {Fail(not_found_message(output))}

\* the paths the arrow loop tests with exists(), up to its first hit
RECURSIVE arrow_probes(_, _, _, _)
arrow_probes(ls, i, cwd, fs) ==
    IF i > Len(ls) THEN {}
    ELSE LET part == assembly_part(ls[i])
         IN  IF part # None /\ looks_like_assembly(part)
             THEN IF exists(fs, join(cwd, part)) THEN {join(cwd, part)}
                  ELSE {join(cwd, part)} \cup arrow_probes(ls, i + 1, cwd, fs)
             ELSE arrow_probes(ls, i + 1, cwd, fs)

\* the paths find_dotnet_output_assembly asks the file system about
probes_of(output, cwd, fs) ==
    LET dirs == possible_output_dirs(cwd)
        hits == {i \in 1..Len(dirs) : dll_files_in(fs, dirs[i]) # {}}
        last == IF hits = {} THEN Len(dirs) ELSE CHOOSE i \in hits : \A j \in hits : i <= j
    IN  arrow_probes(lines(output), 1, cwd, fs)
            \cup (IF arrow_scan(lines(output), 1, cwd, fs) # None THEN {}
                  ELSE {dirs[i] : i \in 1..last})

\* build_failed_message without the captured text
build_failed_message_bare(status, err) ==
    "dotnet build failed with exit code Some(" \o ToString(status) \o ")"

build_failed_message(status, err) ==
    "dotnet build failed with exit code Some(" \o ToString(status) \o ")\nstderr: " \o err

\* run() from the exit status on (lines 127-148): the results it may return
run_outcomes(status, out, err, cwd, fs) ==
    IF status # 0 THEN {Err(build_failed_message(status, err))}
    ELSE {IF r.ok THEN Launch(r.val, cwd) ELSE Err(r.val) :
             r \in find_dotnet_output_assembly(out, cwd, fs)}

\* the working directory of the task
Cwd == "/w"

\* build_config.cwd.unwrap_or_default() in place of the context of line 84
working_directory_defaulted(build_config) ==
    Ok(IF build_config.cwd = None THEN "" ELSE build_config.cwd)

\* build_config.cwd.clone().context("Working directory required for dotnet build")
working_directory(build_config) ==
    IF build_config.cwd = None THEN Fail("Working directory required for dotnet build")
    ELSE Ok(build_config.cwd)

\* .take_while(|arg| arg != "--")
RECURSIVE take_while_not_separator(_)
take_while_not_separator(args) ==
    IF args = <<>> \/ Head(args) = "--" THEN <<>>
    ELSE <<Head(args)>> \o take_while_not_separator(Tail(args))

\* ShellBuilder::build(Some(command), args): the invocation of the command
\* with these arguments
builder_build(task_command, task_args) == [program |-> task_command, args |-> task_args]

BuildFlags == <<"--no-restore", "/p:GenerateFullPaths=true", "-v:q">>

\* the invocation without the take_while: every argument of the task
build_invocation_untruncated(task_args) ==
    LET built == builder_build("dotnet", task_args)
    IN  [program |-> built.program, args |-> built.args \o BuildFlags]

\* lines 87-101: the program and the arguments of the command run() spawns
build_invocation(task_args) ==
    LET built == builder_build("dotnet", take_while_not_separator(task_args))
    IN  [program |-> built.program, args |-> built.args \o BuildFlags]

\* the arguments of the tasks run() is called on
TaskArgUniverse == {"build", "App.csproj", "--"}

\* run() called on any task, with or without working directory, whose build
\* prints nothing
TaskInit ==
    /\ task \in [cwd : {Cwd, None}, args : SeqsUpTo(TaskArgUniverse, MaxArgs)]
    /\ spawned = <<>>
    /\ rpc = "start"
    /\ childOut = <<>>
    /\ childErr = <<>>
    /\ code \in {0, 1}
    /\ wOut = 0 /\ wErr = 0
    /\ pipeOut = <<>> /\ pipeErr = <<>>
    /\ exited = FALSE
    /\ stdout = "" /\ stderr = ""
    /\ files = {}
    /\ probed = {}
    /\ result = NoResult

\* the lines a build may print: no arrow, an absolute .dll, a relative .exe
\* with trailing blanks, an arrow to a file that is no assembly, two arrows
OutLines ==
    {"x", "A -> /a.dll", "B -> b.exe ", "C -> /c.txt", "D -> E -> /a.dll"}

ErrChunks == {"error CS1002\n"}

\* the files that may be on disk
FileUniverse ==
    {"/a.dll", "/w/b.exe", "/c.txt", "/w/bin/Debug/F.dll", "/w/bin/Release/G.dll",
     "/w/bin/Debug/net6.0/H.dll"}

LocInit ==
    /\ task = [cwd |-> Cwd, args |-> <<"build">>]
    /\ spawned = <<>>
    /\ rpc = "start"
    /\ childOut \in {[i \in 1..Len(ls) |-> ls[i] \o "\n"] : ls \in SeqsUpTo(OutLines, MaxOutLines)}
    /\ childErr \in SeqsUpTo(ErrChunks, MaxErrChunks)
    /\ code \in {0, 1}
    /\ wOut = 0 /\ wErr = 0
    /\ pipeOut = <<>> /\ pipeErr = <<>>
    /\ exited = FALSE
    /\ stdout = "" /\ stderr = ""
    /\ files = {}
    /\ probed = {}
    /\ result = NoResult

\* run() on a task without working directory: the `?` of line 84 returns
RunWithoutCwd ==
    /\ rpc = "start"
    /\ ~working_directory(task).ok
    /\ result' = Err(working_directory(task).val)
    /\ rpc' = "done"
    /\ UNCHANGED <<task, spawned, childOut, childErr, code, wOut, wErr, pipeOut, pipeErr,
                   exited, stdout, stderr, files, probed>>
    /\ UNCHANGED <<scnVars, slnVars, adpVars, pkgVars, prsVars, accVars, conVars, treVars>>

\* new_smol_command(..).stdout(piped()).stderr(piped()).spawn()
Spawn ==
    /\ rpc = "start"
    /\ working_directory(task).ok
    /\ spawned' = Append(spawned, build_invocation(task.args))
    /\ rpc' = "read_stdout"
    /\ UNCHANGED <<task, childOut, childErr, code, wOut, wErr, pipeOut, pipeErr,
                   exited, stdout, stderr, files, probed, result>>
    /\ UNCHANGED <<scnVars, slnVars, adpVars, pkgVars, prsVars, accVars, conVars, treVars>>

\* the build process writes its next chunk to stdout; the write blocks while
\* the pipe is full
ChildWriteOut ==
    /\ spawned # <<>> /\ ~exited
    /\ wOut < Len(childOut)
    /\ Len(pipeOut) < PipeCap
    /\ pipeOut' = Append(pipeOut, childOut[wOut + 1])
    /\ wOut' = wOut + 1
    /\ UNCHANGED <<task, spawned, rpc, childOut, childErr, code, wErr, pipeErr, exited,
                   stdout, stderr, files, probed, result>>
    /\ UNCHANGED <<scnVars, slnVars, adpVars, pkgVars, prsVars, accVars, conVars, treVars>>

ChildWriteErr ==
    /\ spawned # <<>> /\ ~exited
    /\ wErr < Len(childErr)
    /\ Len(pipeErr) < PipeCap
    /\ pipeErr' = Append(pipeErr, childErr[wErr + 1])
    /\ wErr' = wErr + 1
    /\ UNCHANGED <<task, spawned, rpc, childOut, childErr, code, wOut, pipeOut, exited,
                   stdout, stderr, files, probed, result>>
    /\ UNCHANGED <<scnVars, slnVars, adpVars, pkgVars, prsVars, accVars, conVars, treVars>>

\* the build process has written everything and exits, closing both pipes;
\* the disk then holds what this build and earlier ones left on it
ChildExit ==
    /\ spawned # <<>> /\ ~exited
    /\ wOut = Len(childOut) /\ wErr = Len(childErr)
    /\ exited' = TRUE
    /\ files' \in SUBSET FileUniverse
    /\ UNCHANGED <<task, spawned, rpc, childOut, childErr, code, wOut, wErr, pipeOut, pipeErr,
                   stdout, stderr, probed, result>>
    /\ UNCHANGED <<scnVars, slnVars, adpVars, pkgVars, prsVars, accVars, conVars, treVars>>

\* out.read_to_string(&mut stdout).await: takes what the pipe holds ...
ReadStdout ==
    /\ rpc = "read_stdout"
    /\ pipeOut # <<>>
    /\ stdout' = stdout \o Head(pipeOut)
    /\ pipeOut' = Tail(pipeOut)
    /\ UNCHANGED <<task, spawned, rpc, childOut, childErr, code, wOut, wErr, pipeErr, exited,
                   stderr, files, probed, result>>
    /\ UNCHANGED <<scnVars, slnVars, adpVars, pkgVars, prsVars, accVars, conVars, treVars>>

\* ... and returns at end of file: the pipe is empty and its write end closed
StdoutEof ==
    /\ rpc = "read_stdout"
    /\ pipeOut = <<>> /\ exited
    /\ rpc' = "read_stderr"
    /\ UNCHANGED <<task, spawned, childOut, childErr, code, wOut, wErr, pipeOut, pipeErr,
                   exited, stdout, stderr, files, probed, result>>
    /\ UNCHANGED <<scnVars, slnVars, adpVars, pkgVars, prsVars, accVars, conVars, treVars>>

\* err.read_to_string(&mut stderr).await, only after stdout reached its end
ReadStderr ==
    /\ rpc = "read_stderr"
    /\ pipeErr # <<>>
    /\ stderr' = stderr \o Head(pipeErr)
    /\ pipeErr' = Tail(pipeErr)
    /\ UNCHANGED <<task, spawned, rpc, childOut, childErr, code, wOut, wErr, pipeOut, exited,
                   stdout, files, probed, result>>
    /\ UNCHANGED <<scnVars, slnVars, adpVars, pkgVars, prsVars, accVars, conVars, treVars>>

StderrEof ==
    /\ rpc = "read_stderr"
    /\ pipeErr = <<>> /\ exited
    /\ rpc' = "wait"
    /\ UNCHANGED <<task, spawned, childOut, childErr, code, wOut, wErr, pipeOut, pipeErr,
                   exited, stdout, stderr, files, probed, result>>
    /\ UNCHANGED <<scnVars, slnVars, adpVars, pkgVars, prsVars, accVars, conVars, treVars>>

\* child.status().await and the rest of run()
WaitStatus ==
    /\ rpc = "wait"
    /\ exited
    /\ result' \in run_outcomes(code, stdout, stderr, task.cwd, files)
    /\ probed' = IF code # 0 THEN probed
                 ELSE probed \cup probes_of(stdout, task.cwd, files)
    /\ rpc' = "done"
    /\ UNCHANGED <<task, spawned, childOut, childErr, code, wOut, wErr, pipeOut, pipeErr,
                   exited, stdout, stderr, files>>
    /\ UNCHANGED <<scnVars, slnVars, adpVars, pkgVars, prsVars, accVars, conVars, treVars>>

(***************************************************************************)
(* TaskLocator, phase 1: DotNetLocator::create_scenario                    *)
(***************************************************************************)
Range(f) == {f[i] : i \in DOMAIN f}

\* SharedString::new_static("dotnet-locator")
locator_name == "dotnet-locator"

\* rewrite_action rewriting every run or r, not only the action
rewrite_action_everywhere(args) ==
    [i \in 1..Len(args) |-> IF args[i] \in {"run", "r"} THEN "build" ELSE args[i]]

\* the "run" | "r" arm: *dotnet_action = "build"
rewrite_action(args) == [args EXCEPT ![1] = "build"]

\* the DebugScenario of lines 65-77 around a task template
scenario_of(task_template, resolved_label, adapter) ==
    [adapter |-> adapter,
     label |-> resolved_label,
     build |-> [task_template |-> task_template, locator_name |-> locator_name],
     config |-> [type |-> "coreclr", request |-> "launch"],
     tcp_connection |-> None]

\* create_scenario accepting test without looking for --no-build
create_scenario_any_test(build_config, resolved_label, adapter) ==
    IF build_config.command # "dotnet" THEN {}
    ELSE IF build_config.args = <<>> THEN {}
    ELSE LET dotnet_action == build_config.args[1]
         IN  CASE dotnet_action \in {"run", "r"} ->
                    {scenario_of([build_config EXCEPT !.args = rewrite_action(@)],
                                 resolved_label, adapter)}
               [] dotnet_action \in {"test", "build"} ->
                    {scenario_of(build_config, resolved_label, adapter)}
               [] OTHER -> {}

create_scenario(build_config, resolved_label, adapter) ==
    IF build_config.command # "dotnet" THEN {}
    ELSE IF build_config.args = <<>> THEN {}
    ELSE LET dotnet_action == build_config.args[1]
         IN  CASE dotnet_action \in {"run", "r"} ->
                    {scenario_of([build_config EXCEPT !.args = rewrite_action(@)],
                                 resolved_label, adapter)}
               [] dotnet_action = "test" ->
                    IF "--no-build" \notin Range(build_config.args) THEN {}
                    ELSE {scenario_of(build_config, resolved_label, adapter)}
               [] dotnet_action = "build" ->
                    {scenario_of(build_config, resolved_label, adapter)}
               [] OTHER -> {}

\* the arguments a task template may carry
ArgUniverse == {"run", "r", "build", "test", "--no-build", "clean", "--", "App.csproj"}

Templates ==
    [label : {"dotnet: run"}, command : {"dotnet", "cargo"},
     args : SeqsUpTo(ArgUniverse, MaxArgs), cwd : {"$ZED_WORKTREE_ROOT"}]

ResolvedLabel == "run App"

AdapterName == "vsdbg"

ScnInit ==
    /\ template \in Templates
    /\ spc = "start"
    /\ scenario = {}

ScnIdle ==
    /\ template = [label |-> "dotnet: run", command |-> "dotnet", args |-> <<"run">>,
                   cwd |-> "$ZED_WORKTREE_ROOT"]
    /\ spc = "idle"
    /\ scenario = {}

CreateScenario ==
    /\ spc = "start"
    /\ scenario' = create_scenario(template, ResolvedLabel, AdapterName)
    /\ spc' = "done"
    /\ UNCHANGED template
    /\ UNCHANGED <<locVars, slnVars, adpVars, pkgVars, prsVars, accVars, conVars, treVars>>

\* the build task of an accepted scenario is resolved and handed to run():
\* the arguments of the scenario's template, the working directory of the
\* template resolved
ResolveTask ==
    /\ spc = "done" /\ scenario # {}
    /\ rpc = "idle"
    /\ task' = [cwd |-> Cwd,
                args |-> (CHOOSE sc \in scenario : TRUE).build.task_template.args]
    /\ rpc' = "start"
    /\ UNCHANGED <<spawned, childOut, childErr, code, wOut, wErr, pipeOut, pipeErr,
                   exited, stdout, stderr, files, probed, result>>
    /\ UNCHANGED <<scnVars, slnVars, adpVars, pkgVars, prsVars, accVars, conVars, treVars>>

(***************************************************************************)
(* ManifestParser: SolutionFile::parse and its helpers                     *)
(***************************************************************************)
\* extract_guid: the text between the first "{" and the first "}" after it
extract_guid(line) ==
    LET start == find(line, "{")
        end   == IF start = 0 THEN 0 ELSE find(Suffix(line, start), "}")
    IN  IF start = 0 \/ end = 0 THEN None
        ELSE SubSeq(line, start + 1, start + end - 2)

\* the map of parse_project_line: s.trim().trim_matches('"') on every part
trimmed_parts(after_equals) ==
    LET raw == split(after_equals, ",")
    IN  [i \in 1..Len(raw) |-> trim_matches(trim(raw[i]), "\"")]

\* parse_project_line: {} is None, {p} is Some(p)
parse_project_line(line) ==
    LET type_guid == extract_guid(line)
        pieces    == split(line, "=")
    IN  IF type_guid = None THEN {}
        ELSE IF Len(pieces) < 2 THEN {}
        ELSE LET parts == trimmed_parts(pieces[2])
             IN  IF Len(parts) >= 3
                 THEN {[name |-> parts[1], path |-> parts[2], guid |-> parts[3],
                        type_guid |-> type_guid, packages |-> <<>>]}
                 ELSE {}

\* one turn of the loop of parse_sln over a line, on the three accumulators
sln_line(acc, raw_line) ==
    LET line == trim(raw_line)
        projects ==
            IF starts_with(line, "Project(\"") /\ parse_project_line(line) # {}
            THEN Append(acc.projects, CHOOSE p \in parse_project_line(line) : TRUE)
            ELSE acc.projects
        name == split(line, "|")[1]
        configurations ==
            IF (starts_with(line, "Debug|") \/ starts_with(line, "Release|"))
               /\ name \notin Range(acc.configurations)
            THEN Append(acc.configurations, name)
            ELSE acc.configurations
        startup_project ==
            IF contains(line, "StartupProject") /\ extract_guid(line) # None
            THEN extract_guid(line)
            ELSE acc.startup_project
    IN  [projects |-> projects, configurations |-> configurations,
         startup_project |-> startup_project]

RECURSIVE sln_lines(_, _, _)
sln_lines(acc, ls, i) ==
    IF i > Len(ls) THEN acc ELSE sln_lines(sln_line(acc, ls[i]), ls, i + 1)

\* the default of lines 244-246 and 322-324: the first project's guid
default_startup(startup_project, projects) ==
    IF startup_project = None /\ projects # <<>> THEN projects[1].guid
    ELSE startup_project

\* parse_sln without the default configurations
parse_sln_no_default(text, base_dir) ==
    LET acc == sln_lines([projects |-> <<>>, configurations |-> <<>>,
                          startup_project |-> None], lines(text), 1)
    IN  Ok([path |-> join(base_dir, "solution.sln"),
            projects |-> acc.projects,
            configurations |-> acc.configurations,
            startup_project |-> default_startup(acc.startup_project, acc.projects)])

parse_sln(text, base_dir) ==
    LET acc == sln_lines([projects |-> <<>>, configurations |-> <<>>,
                          startup_project |-> None], lines(text), 1)
    IN  Ok([path |-> join(base_dir, "solution.sln"),
            projects |-> acc.projects,
            configurations |-> IF acc.configurations = <<>> THEN <<"Debug", "Release">>
                               ELSE acc.configurations,
            startup_project |-> default_startup(acc.startup_project, acc.projects)])

\* Path::file_stem as a string, "Unknown" when the path has no file name
file_stem(path) ==
    LET name == file_name(path)
        dot  == rfind(name, ".")
    IN  IF name = "" \/ name = ".." THEN "Unknown"
        ELSE IF dot <= 1 THEN name
        ELSE SubSeq(name, 1, dot - 1)

\* The characters of the inputs, for the hash: a character's code is its
\* place in this string.
Alphabet == "abcdefghijklmnopqrstuvwxyzABCDEFGHIJKLMNOPQRSTUVWXYZ0123456789./\\-_ "

CharCode(c) == find(Alphabet, c)

\* DefaultHasher::finish after path_str.hash(): a 64-bit value, held as four
\* 16-bit limbs <<bits 63-48, 47-32, 31-16, 15-0>>.  The standard library's
\* SipHash is stood in for by a polynomial hash per limb: like SipHash it is
\* a fixed function of the bytes of the string.
RECURSIVE poly_hash(_, _, _)
poly_hash(str, mult, acc) ==
    IF str = "" THEN acc
    ELSE poly_hash(Suffix(str, 2), mult, (acc * mult + CharCode(Ch(str, 1)) + 1) % 65536)

hash64(str) ==
    << poly_hash(str, 31, 7), poly_hash(str, 37, 11),
       poly_hash(str, 41, 13), poly_hash(str, 43, 17) >>

HexDigits == "0123456789abcdef"

\* {:04x} of a 16-bit value
hex4(n) ==
    LET digit(k) == Ch(HexDigits, ((n \div k) % 16) + 1)
    IN  digit(4096) \o digit(256) \o digit(16) \o digit(1)

\* format!("{:08x}-{:04x}-{:04x}-{:04x}-{:012x}", hash >> 32, (hash >> 16) & 0xFFFF,
\*         hash & 0xFFFF, (hash >> 48) & 0xFFFF, hash & 0xFFFFFFFFFFFF)
format_guid(h) ==
    hex4(h[1]) \o hex4(h[2]) \o "-" \o hex4(h[3]) \o "-" \o hex4(h[4]) \o "-"
        \o hex4(h[1]) \o "-" \o hex4(h[2]) \o hex4(h[3]) \o hex4(h[4])

\* the C# project type GUID of line 312
CSharpTypeGuid == "FAE04EC0-301F-11D3-BA7A-00C04FC2CCAE"

\* slnx_project with a guid that also depends on the length of the tag
slnx_project_tag_hashed(project_tag) ==
    LET at         == find(project_tag, "Path=\"")
        path_start == at + 6
        path_end   == IF at = 0 THEN 0 ELSE find(Suffix(project_tag, path_start), "\"")
        path_str   == SubSeq(project_tag, path_start, path_start + path_end - 2)
    IN  IF at = 0 \/ path_end = 0 THEN {}
        ELSE {[name |-> file_stem(path_str), path |-> path_str,
               guid |-> format_guid(hash64(path_str \o ToString(Len(project_tag)))),
               type_guid |-> CSharpTypeGuid, packages |-> <<>>]}

\* the project of a <Project ...> tag: {} when it has no complete Path="..."
slnx_project(project_tag) ==
    LET at         == find(project_tag, "Path=\"")
        path_start == at + 6
        path_end   == IF at = 0 THEN 0 ELSE find(Suffix(project_tag, path_start), "\"")
        path_str   == SubSeq(project_tag, path_start, path_start + path_end - 2)
    IN  IF at = 0 \/ path_end = 0 THEN {}
        ELSE {[name |-> file_stem(path_str), path |-> path_str,
               guid |-> format_guid(hash64(path_str)),
               type_guid |-> CSharpTypeGuid, packages |-> <<>>]}

\* slnx_projects that stops quietly at an unclosed tag
RECURSIVE slnx_projects_tolerant(_, _)
slnx_projects_tolerant(remaining, projects) ==
    LET project_start == find(remaining, "<Project")
        project_end   == IF project_start = 0 THEN 0
                         ELSE find(Suffix(remaining, project_start), ">")
        project_tag   == SubSeq(remaining, project_start, project_start + project_end - 1)
    IN  IF project_start = 0 \/ project_end = 0 THEN Ok(projects)
        ELSE slnx_projects_tolerant(
                 Suffix(remaining, project_start + project_end),
                 IF slnx_project(project_tag) = {} THEN projects
                 ELSE Append(projects, CHOOSE p \in slnx_project(project_tag) : TRUE))

\* the while loop of parse_slnx: Ok(projects), or the error of an unclosed tag
RECURSIVE slnx_projects(_, _)
slnx_projects(remaining, projects) ==
    LET project_start == find(remaining, "<Project")
        project_end   == IF project_start = 0 THEN 0
                         ELSE find(Suffix(remaining, project_start), ">")
        project_tag   == SubSeq(remaining, project_start, project_start + project_end - 1)
    IN  IF project_start = 0 THEN Ok(projects)
        ELSE IF project_end = 0 THEN Fail("Invalid XML: unclosed Project tag")
        ELSE slnx_projects(
                 Suffix(remaining, project_start + project_end),
                 IF slnx_project(project_tag) = {} THEN projects
                 ELSE Append(projects, CHOOSE p \in slnx_project(project_tag) : TRUE))

parse_slnx(text, base_dir) ==
    LET r == slnx_projects(text, <<>>)
    IN  IF ~r.ok THEN r
        ELSE Ok([path |-> join(base_dir, "solution.slnx"),
                 projects |-> r.val,
                 configurations |-> <<"Debug", "Release">>,
                 startup_project |-> default_startup(None, r.val)])

is_slnx(text) ==
    starts_with(trim_start(text), "<?xml") \/ starts_with(trim_start(text), "<Solution")

\* SolutionFile::parse
parse(text, base_dir) ==
    IF is_slnx(text) THEN parse_slnx(text, base_dir) ELSE parse_sln(text, base_dir)

\* SolutionFile::get_project_by_guid and get_startup_project: {} is None
get_project_by_guid(sol, guid) ==
    LET hits == {i \in 1..Len(sol.projects) : sol.projects[i].guid = guid}
    IN  IF hits = {} THEN {}
        ELSE {sol.projects[CHOOSE i \in hits : \A j \in hits : i <= j]}

get_startup_project(sol) ==
    IF sol.startup_project = None THEN {}
    ELSE get_project_by_guid(sol, sol.startup_project)

(***************************************************************************)
(* ManifestParser: parse_csproj_packages                                   *)
(***************************************************************************)
\* the value of an attribute in a tag, `attr` being its name with the ="
\* that follows: None when the tag has no attr or no closing quote after it
attribute_value(ref_tag, attr) ==
    LET at    == find(ref_tag, attr)
        start == at + Len(attr)
        end   == IF at = 0 THEN 0 ELSE find(Suffix(ref_tag, start), "\"")
    IN  IF at = 0 \/ end = 0 THEN None
        ELSE SubSeq(ref_tag, start, start + end - 2)

\* where the tag that starts at the head of `from_ref` ends: the first "/>",
\* or else the first "</PackageReference>"; 0 when neither occurs
ref_end_of(from_ref) ==
    IF find(from_ref, "/>") # 0 THEN find(from_ref, "/>")
    ELSE find(from_ref, "</PackageReference>")

\* the while loop of parse_csproj_packages
RECURSIVE csproj_refs(_, _)
csproj_refs(remaining, pkgs) ==
    LET ref_start == find(remaining, "<PackageReference")
        ref_end   == IF ref_start = 0 THEN 0 ELSE ref_end_of(Suffix(remaining, ref_start))
        ref_tag   == SubSeq(remaining, ref_start, ref_start + ref_end)
        package_id      == attribute_value(ref_tag, "Include=\"")
        package_version == attribute_value(ref_tag, "Version=\"")
    IN  IF ref_start = 0 THEN Ok(pkgs)
        ELSE IF ref_end = 0 THEN Fail("Invalid XML: unclosed PackageReference tag")
        ELSE csproj_refs(
                 Suffix(remaining, ref_start + ref_end + 1),
                 IF package_id = None THEN pkgs
                 ELSE Append(pkgs, [id |-> package_id, version |-> package_version]))

\* parse_csproj_packages: Ok(the packages) or the error of an unclosed tag
parse_csproj_packages(text) == csproj_refs(text, <<>>)

\* a PackageReference element as a project file writes it: self-closing, or
\* with a child element and a closing tag
element_text(ref) ==
    "    <PackageReference Include=\"" \o ref.id \o "\""
        \o (IF ref.version = None THEN "" ELSE " Version=\"" \o ref.version \o "\"")
        \o (IF ref.long
            THEN ">\n      <PrivateAssets>all</PrivateAssets>\n    </PackageReference>\n"
            ELSE " />\n")

\* the project descriptor with these elements, in this order
descriptor_text(rs) ==
    "<Project Sdk=\"Microsoft.NET.Sdk\">\n  <ItemGroup>\n"
        \o Concat([i \in 1..Len(rs) |-> element_text(rs[i])])
        \o "  </ItemGroup>\n</Project>\n"

RefUniverse == [id : {"Serilog", "xunit"}, version : {None, "1.0", "2.4.1"}, long : BOOLEAN]

NoPackages == Fail("")

PkgInit ==
    /\ refs \in SeqsUpTo(RefUniverse, MaxRefs)
    /\ descriptor = descriptor_text(refs)
    /\ kpc = "start"
    /\ packages = NoPackages

PkgIdle ==
    /\ refs = <<>>
    /\ descriptor = ""
    /\ kpc = "idle"
    /\ packages = NoPackages

ParseCsprojPackages ==
    /\ kpc = "start"
    /\ packages' = parse_csproj_packages(descriptor)
    /\ kpc' = "done"
    /\ UNCHANGED <<refs, descriptor>>
    /\ UNCHANGED <<locVars, scnVars, slnVars, adpVars, prsVars, accVars, conVars, treVars>>

(***************************************************************************)
(* SolutionExplorerPanel: loading the solution, the startup-project menu    *)
(***************************************************************************)
BaseDir == "/ws"

NoMenu == [open |-> FALSE, guid |-> "", is_startup |-> FALSE]

\* the lines of a legacy solution file
SlnLines ==
    { "Project(\"{T1}\") = \"App\", \"App.csproj\", \"{G1}\"",
      "Project(\"{T1}\") = \"App.Tests\", \"t/App.Tests.csproj\", \"{G2}\"",
      "  Project(\"{T1}\") = \"Lib\", \"Lib.csproj\"",
      "Project(\"{T1}\") = \"StartupProject\", \"s.csproj\", \"{G3}\"",
      "Debug|Any CPU = Debug|Any CPU",
      "Release|x64 = Release|x64",
      "StartupProject = {G2}",
      "EndProject" }

\* the lines of a markup solution file after its root element
SlnxLines ==
    { "  <Project Path=\"App/App.csproj\" />",
      "<Project Path=\"Lib.csproj\" />",
      "<Project Path=\"T.csproj\"",
      "<Folder Name=\"/src/\" />" }

Text(ls) == Concat([i \in 1..Len(ls) |-> ls[i] \o "\n"])

Contents ==
    {Text(ls) : ls \in SeqsUpTo(SlnLines, MaxSlnLines)}
        \cup {"<Solution>\n" \o Text(ls) : ls \in SeqsUpTo(SlnxLines, MaxSlnLines)}

\* the project files the solution texts name, under the base directory
ProjectFiles ==
    {"/ws/App.csproj", "/ws/t/App.Tests.csproj", "/ws/s.csproj", "/ws/App/App.csproj",
     "/ws/Lib.csproj", "/ws/T.csproj"}

\* a descriptor with one package reference, named after the project file
GoodDescriptor(f) ==
    "<Project>\n  <PackageReference Include=\"" \o file_stem(f) \o ".Dep\" Version=\"1.0\" />\n"
        \o "</Project>\n"

\* a descriptor cut off inside a PackageReference tag
BrokenDescriptor == "<Project>\n  <PackageReference Include=\"X\"\n"

NoDisk == [f \in ProjectFiles |-> None]

GoodDisk == [f \in ProjectFiles |-> GoodDescriptor(f)]

\* every descriptor in order; or one of the faulty files unreadable and
\* another cut off
DiskUniverse ==
    {GoodDisk}
        \cup {[GoodDisk EXCEPT ![f] = None, ![g] = BrokenDescriptor] :
                 <<f, g>> \in {<<"/ws/App.csproj", "/ws/Lib.csproj">>,
                               <<"/ws/t/App.Tests.csproj", "/ws/App.csproj">>,
                               <<"/ws/Lib.csproj", "/ws/t/App.Tests.csproj">>}}

\* std::fs::read_to_string of a project file
read_to_string(d, f) ==
    IF f \in DOMAIN d /\ d[f] # None THEN Ok(d[f]) ELSE Fail("No such file or directory")

\* the body of the loop of load_solution for one project: its packages after it
project_packages(project, base_dir, d) ==
    LET csproj_content == read_to_string(d, join(base_dir, project.path))
    IN  IF ~csproj_content.ok THEN project.packages
        ELSE IF ~parse_csproj_packages(csproj_content.val).ok THEN project.packages
        ELSE parse_csproj_packages(csproj_content.val).val

\* the loop of load_solution over solution.projects
fill_packages(sol, base_dir, d) ==
    [sol EXCEPT !.projects =
        [i \in 1..Len(sol.projects) |->
            [sol.projects[i] EXCEPT !.packages = project_packages(sol.projects[i], base_dir, d)]]]

\* loaded_solution that gives up when a project's descriptor cannot be read
\* or parsed
loaded_solution_strict(r, base_dir, d) ==
    IF ~r.ok THEN {}
        ELSE IF \E i \in 1..Len(r.val.projects) :
                    \/ ~read_to_string(d, join(base_dir, r.val.projects[i].path)).ok
                    \/ ~parse_csproj_packages(
                            read_to_string(d, join(base_dir, r.val.projects[i].path)).val).ok
        THEN {}
        ELSE {fill_packages(r.val, base_dir, d)}

\* what the load task installs, r being what SolutionFile::parse returned:
\* {} when the solution text did not parse
loaded_solution(r, base_dir, d) ==
    IF r.ok THEN {fill_packages(r.val, base_dir, d)} ELSE {}

NoParse == Fail("")

SlnInit ==
    /\ content \in Contents
    /\ disk = NoDisk
    /\ parsed = NoParse
    /\ lpc = "start"
    /\ solution = {}
    /\ menu = NoMenu

SlnIdle ==
    /\ content = ""
    /\ disk = NoDisk
    /\ parsed = NoParse
    /\ lpc = "idle"
    /\ solution = {}
    /\ menu = NoMenu

\* the task of load_solution: read, parse, install as the panel's solution
LoadSolution ==
    /\ lpc = "start"
    /\ parsed' = parse(content, BaseDir)
    /\ disk' \in DiskUniverse
    /\ solution' = IF parsed'.ok THEN loaded_solution(parsed', BaseDir, disk') ELSE solution
    /\ lpc' = "done"
    /\ UNCHANGED <<content, menu>>
    /\ UNCHANGED <<locVars, scnVars, adpVars, pkgVars, prsVars, accVars, conVars, treVars>>

TheSolution == CHOOSE sol \in solution : TRUE

\* a right click on the node of project i: deploy_context_menu
DeployContextMenu(i) ==
    /\ solution # {} /\ ~menu.open
    /\ i \in 1..Len(TheSolution.projects)
    /\ menu' = [open |-> TRUE, guid |-> TheSolution.projects[i].guid,
                is_startup |-> TheSolution.startup_project # None
                               /\ TheSolution.startup_project = TheSolution.projects[i].guid]
    /\ UNCHANGED <<content, disk, lpc, parsed, solution>>
    /\ UNCHANGED <<locVars, scnVars, adpVars, pkgVars, prsVars, accVars, conVars, treVars>>

\* the entry "Set as Startup Project", shown when the node is not the startup project
SetAsStartupProject ==
    /\ menu.open /\ ~menu.is_startup
    /\ solution' = {[sol EXCEPT !.startup_project = menu.guid] : sol \in solution}
    /\ menu' = NoMenu
    /\ UNCHANGED <<content, disk, lpc, parsed>>
    /\ UNCHANGED <<locVars, scnVars, adpVars, pkgVars, prsVars, accVars, conVars, treVars>>

\* the entry "Unset Startup Project", shown when the node is the startup project
UnsetStartupProject ==
    /\ menu.open /\ menu.is_startup
    /\ solution' = {[sol EXCEPT !.startup_project = None] : sol \in solution}
    /\ menu' = NoMenu
    /\ UNCHANGED <<content, disk, lpc, parsed>>
    /\ UNCHANGED <<locVars, scnVars, adpVars, pkgVars, prsVars, accVars, conVars, treVars>>

\* any other entry, or a click outside the menu
DismissMenu ==
    /\ menu.open
    /\ menu' = NoMenu
    /\ UNCHANGED <<content, disk, lpc, parsed, solution>>
    /\ UNCHANGED <<locVars, scnVars, adpVars, pkgVars, prsVars, accVars, conVars, treVars>>

(***************************************************************************)
(* SolutionExplorerPanel: the tree and the left clicks on its nodes        *)
(***************************************************************************)
\* SolutionTreeNode: Solution { path }, Project { name, path, guid },
\* Package { project_guid, package_id, version }, in one record shape
SolutionNode(sol) ==
    [kind |-> "Solution", name |-> "", path |-> sol.path, guid |-> "",
     package_id |-> "", version |-> None]

ProjectNode(project) ==
    [kind |-> "Project", name |-> project.name, path |-> project.path,
     guid |-> project.guid, package_id |-> "", version |-> None]

PackageNode(project, package) ==
    [kind |-> "Package", name |-> "", path |-> "", guid |-> project.guid,
     package_id |-> package.id, version |-> package.version]

\* the items render_tree pushes for one project: its node, then its package
\* nodes if the project is expanded and its packages are expanded
project_items(project, projects_open, packages_open) ==
    <<ProjectNode(project)>>
        \o (IF project.guid \in projects_open /\ project.guid \in packages_open
            THEN [k \in 1..Len(project.packages) |-> PackageNode(project, project.packages[k])]
            ELSE <<>>)

RECURSIVE projects_items(_, _, _)
projects_items(projects, projects_open, packages_open) ==
    IF projects = <<>> THEN <<>>
    ELSE project_items(Head(projects), projects_open, packages_open)
             \o projects_items(Tail(projects), projects_open, packages_open)

\* the nodes of the items of render_tree, top to bottom
render_tree(sol, projects_open, packages_open) ==
    <<SolutionNode(sol)>> \o projects_items(sol.projects, projects_open, packages_open)

\* the tree on screen
Items ==
    IF solution = {} THEN <<>>
    ELSE render_tree(TheSolution, expanded_projects, expanded_packages)

\* lines 361-371: a click with Ctrl or Cmd toggles the node in the
\* selection, a click without replaces the selection
selection_after(selection, node, modifier) ==
    IF modifier
    THEN IF node \in selection THEN selection \ {node} ELSE selection \cup {node}
    ELSE {node}

\* lines 381-387: the first project with this guid has packages
auto_expand(sol, guid) ==
    \E proj \in get_project_by_guid(sol, guid) : proj.packages # <<>>

\* the lines of the solution files whose tree is clicked: a project with a
\* readable descriptor, a project with the same guid and another path, a
\* project with an unreadable descriptor
TreeLines ==
    { "Project(\"{T1}\") = \"App\", \"App.csproj\", \"{G1}\"",
      "Project(\"{T1}\") = \"App.Tests\", \"t/App.Tests.csproj\", \"{G1}\"",
      "Project(\"{T1}\") = \"Lib\", \"Lib.csproj\", \"{G2}\"" }

TreeContents == {Text(ls) : ls \in SeqsUpTo(TreeLines, MaxSlnLines)}

\* the descriptors of App and Lib can be read, the one of App.Tests cannot
TreeDisk == [GoodDisk EXCEPT !["/ws/t/App.Tests.csproj"] = None]

\* the panel once its load task has installed the solution, nothing expanded
TreInit ==
    /\ content \in TreeContents
    /\ disk = TreeDisk
    /\ parsed = parse(content, BaseDir)
    /\ solution = loaded_solution(parsed, BaseDir, disk)
    /\ lpc = "done"
    /\ menu = NoMenu
    /\ expanded_projects = {}
    /\ expanded_packages = {}
    /\ selected_nodes = {}

TreIdle ==
    /\ expanded_projects = {}
    /\ expanded_packages = {}
    /\ selected_nodes = {}

\* a left click on the solution node: the selection only
ClickSolution(i, modifier) ==
    /\ i \in 1..Len(Items) /\ Items[i].kind = "Solution"
    /\ selected_nodes' = selection_after(selected_nodes, Items[i], modifier)
    /\ UNCHANGED <<expanded_projects, expanded_packages>>
    /\ UNCHANGED <<locVars, scnVars, slnVars, adpVars, pkgVars, prsVars, accVars, conVars>>

\* a left click on a project node: the selection, then the project is
\* collapsed with its packages, or expanded
ClickProject(i, modifier) ==
    /\ i \in 1..Len(Items) /\ Items[i].kind = "Project"
    /\ selected_nodes' = selection_after(selected_nodes, Items[i], modifier)
    /\ IF Items[i].guid \in expanded_projects
       THEN /\ expanded_projects' = expanded_projects \ {Items[i].guid}
            /\ expanded_packages' = expanded_packages \ {Items[i].guid}
       ELSE /\ expanded_projects' = expanded_projects \cup {Items[i].guid}
            /\ expanded_packages' =
                   IF auto_expand(TheSolution, Items[i].guid)
                   THEN expanded_packages \cup {Items[i].guid}
                   ELSE expanded_packages
    /\ UNCHANGED <<locVars, scnVars, slnVars, adpVars, pkgVars, prsVars, accVars, conVars>>

\* a left click on a package node: the selection, then the packages of its
\* project are toggled
ClickPackage(i, modifier) ==
    /\ i \in 1..Len(Items) /\ Items[i].kind = "Package"
    /\ selected_nodes' = selection_after(selected_nodes, Items[i], modifier)
    /\ expanded_packages' =
           IF Items[i].guid \in expanded_packages
           THEN expanded_packages \ {Items[i].guid}
           ELSE expanded_packages \cup {Items[i].guid}
    /\ UNCHANGED expanded_projects
    /\ UNCHANGED <<locVars, scnVars, slnVars, adpVars, pkgVars, prsVars, accVars, conVars>>

(***************************************************************************)
(* ManifestParser: SolutionFile::parse called on one text and on another   *)
(***************************************************************************)
\* the lines of the legacy documents parsed twice: a project, a malformed
\* project line, two configuration lines (one indented) and an unknown line
DocLines ==
    { "Project(\"{T1}\") = \"App\", \"App.csproj\", \"{G1}\"",
      "  Project(\"{T1}\") = \"Lib\", \"Lib.csproj\"",
      "Debug|Any CPU = Debug|Any CPU",
      "\tRelease|x64 = Release|x64",
      "EndProject" }

Documents ==
    {Text(ls) : ls \in SeqsUpTo(DocLines, MaxSlnLines)}
        \cup {"<Solution>\n" \o Text(ls) : ls \in SeqsUpTo(SlnxLines, MaxSlnLines)}

\* documents for the second call other than the first text: a markup
\* solution naming Lib.csproj in a tag with one more attribute, one with an
\* XML prolog, a legacy solution with CRLF line ends
OtherDocuments ==
    { "<Solution>\n  <Project Path=\"Lib.csproj\" Type=\"Classic C#\" />\n</Solution>\n",
      "<?xml version=\"1.0\"?>\n<Solution>\n  <Project Path=\"App/App.csproj\" />\n",
      "Project(\"{T1}\") = \"App\", \"App.csproj\", \"{G1}\"\r\nDebug|x86 = Debug|x86\r\n" }

PrsInit ==
    /\ doc \in Documents
    /\ again = ""
    /\ first = NoParse
    /\ second = NoParse
    /\ ppc = "start"

PrsIdle ==
    /\ doc = ""
    /\ again = ""
    /\ first = NoParse
    /\ second = NoParse
    /\ ppc = "idle"

\* SolutionFile::parse(doc, base_dir)
ParseFirst ==
    /\ ppc = "start"
    /\ first' = parse(doc, BaseDir)
    /\ ppc' = "once"
    /\ UNCHANGED <<doc, again, second>>
    /\ UNCHANGED <<locVars, scnVars, slnVars, adpVars, pkgVars, accVars, conVars, treVars>>

\* a second call, on the same text or on another document
ParseSecond ==
    /\ ppc = "once"
    /\ again' \in {doc} \cup OtherDocuments
    /\ second' = parse(again', BaseDir)
    /\ ppc' = "twice"
    /\ UNCHANGED <<doc, first>>
    /\ UNCHANGED <<locVars, scnVars, slnVars, adpVars, pkgVars, accVars, conVars, treVars>>

(***************************************************************************)
(* ManifestParser: SolutionFile::get_executable_projects                   *)
(***************************************************************************)
\* the filter of the comment of line 353: names not ending in "Tests"
RECURSIVE not_ending_in_tests(_)
not_ending_in_tests(projects) ==
    IF projects = <<>> THEN <<>>
    ELSE (IF ~ends_with(Head(projects).name, "Tests") THEN <<Head(projects)>> ELSE <<>>)
             \o not_ending_in_tests(Tail(projects))

get_projects_not_ending_in_tests(s) == not_ending_in_tests(s.projects)

\* .iter().filter(|p| !p.name.contains("Test")).collect()
RECURSIVE without_test(_)
without_test(projects) ==
    IF projects = <<>> THEN <<>>
    ELSE (IF ~contains(Head(projects).name, "Test") THEN <<Head(projects)>> ELSE <<>>)
             \o without_test(Tail(projects))

get_executable_projects(s) == without_test(s.projects)

\* the project lines of the solutions the accessor is called on
NamedLines ==
    { "Project(\"{T1}\") = \"MyApp\", \"MyApp.csproj\", \"{G1}\"",
      "Project(\"{T1}\") = \"MyApp.Tests\", \"t/MyApp.Tests.csproj\", \"{G2}\"",
      "Project(\"{T1}\") = \"UnitTest\", \"u/UnitTest.csproj\", \"{G3}\"",
      "Project(\"{T1}\") = \"contest\", \"c/contest.csproj\", \"{G4}\"",
      "Project(\"{T1}\") = \"TestBed\", \"b/TestBed.csproj\", \"{G5}\"" }

NamedTags ==
    { "<Project Path=\"MyApp.csproj\" />",
      "<Project Path=\"t/MyApp.Tests.csproj\" />" }

\* the solutions parse gives for texts of these lines
SolutionFiles ==
    {parse_sln(Text(ls), BaseDir).val : ls \in SeqsUpTo(NamedLines, MaxSlnLines)}
        \cup {parse_slnx("<Solution>\n" \o Text(ls), BaseDir).val :
                  ls \in SeqsUpTo(NamedTags, MaxSlnLines)}

AccInit ==
    /\ opened \in SolutionFiles
    /\ xpc = "start"
    /\ executables = <<>>

AccIdle ==
    /\ opened = [path |-> "", projects |-> <<>>, configurations |-> <<>>,
                 startup_project |-> None]
    /\ xpc = "idle"
    /\ executables = <<>>

\* solution.get_executable_projects()
GetExecutableProjects ==
    /\ xpc = "start"
    /\ executables' = get_executable_projects(opened)
    /\ xpc' = "done"
    /\ UNCHANGED opened
    /\ UNCHANGED <<locVars, scnVars, slnVars, adpVars, pkgVars, prsVars, conVars, treVars>>

(***************************************************************************)
(* BinaryResolver and LaunchAssembler: DotNetDebugAdapter                  *)
(***************************************************************************)
\* serde_json::Value, and the absence of a key in the configuration map
Str(v) == [t |-> "string", v |-> v]

Num(v) == [t |-> "number", v |-> v]

Null == [t |-> "null", v |-> ""]

Absent == [t |-> "absent", v |-> ""]

\* Value::get(key).is_none()
is_none(value) == value = Absent

\* Option<&Value>::and_then(|v| v.as_str()): None unless a string is there
as_str(value) == IF value.t = "string" THEN value.v ELSE None

\* debug_adapters_dir().join("vsdbg").join("vsdbg")
CachedBinary == "/data/debug_adapters/vsdbg/vsdbg"

NotFoundMessage ==
    "vsdbg not found. Please install .NET SDK or download vsdbg manually.\nTo install: https://github.com/microsoft/vscode-csharp or dotnet install tool"

ProgramRequiredMessage == "'program' is required for launch requests"

\* the path the PATH lookup yields: None unless `which` ran, succeeded and
\* printed the path of something that exists
path_hit(which_result, fs) ==
    LET path_str == trim(which_result.out)
    IN  IF which_result.ok /\ which_result.success /\ path_str # "" /\ exists(fs, path_str)
        THEN path_str
        ELSE None

\* fetch_vsdbg with the cache directory looked at first
fetch_vsdbg_cache_first(which_result, fs) ==
    IF exists(fs, CachedBinary) THEN Ok(CachedBinary)
    ELSE IF path_hit(which_result, fs) # None THEN Ok(path_hit(which_result, fs))
    ELSE Fail(NotFoundMessage)

fetch_vsdbg(which_result, fs) ==
    IF path_hit(which_result, fs) # None THEN Ok(path_hit(which_result, fs))
    ELSE IF exists(fs, CachedBinary) THEN Ok(CachedBinary)
    ELSE Fail(NotFoundMessage)

\* the request kind of lines 83-92
request_kind(cfg) == IF as_str(cfg.request) = "attach" THEN "attach" ELSE "launch"

\* request_args asking for "program" whatever the request kind
request_args_strict(cfg) ==
    LET configuration ==
            IF is_none(cfg.console)
            THEN [cfg EXCEPT !.console = Str("integratedTerminal")]
            ELSE cfg
    IN  IF is_none(configuration.program)
        THEN Fail(ProgramRequiredMessage)
        ELSE Ok([configuration |-> configuration, request |-> request_kind(cfg)])

\* request_args writing its console mode over the one of the map
request_args_console_forced(cfg) ==
    LET request == request_kind(cfg)
        configuration == [cfg EXCEPT !.console = Str("integratedTerminal")]
    IN  IF request = "launch" /\ is_none(configuration.program)
        THEN Fail(ProgramRequiredMessage)
        ELSE Ok([configuration |-> configuration, request |-> request])

\* request_args: Ok((configuration, request)) or the error
request_args(cfg) ==
    LET request == request_kind(cfg)
        configuration ==
            IF is_none(cfg.console)
            THEN [cfg EXCEPT !.console = Str("integratedTerminal")]
            ELSE cfg
    IN  IF request = "launch" /\ is_none(configuration.program)
        THEN Fail(ProgramRequiredMessage)
        ELSE Ok([configuration |-> configuration, request |-> request])

NoBinary ==
    [kind |-> "none", command |-> "", arguments |-> <<>>, cwd |-> None,
     configuration |-> Absent, request |-> "", msg |-> ""]

BinaryErr(msg) == [NoBinary EXCEPT !.kind = "Err", !.msg = msg]

\* assemble that launches the debugger of the cache directory whatever path
\* it is handed
assemble_cached_command(binary_path, cfg) ==
    LET r == request_args(cfg)
    IN  IF ~r.ok THEN BinaryErr(r.val)
        ELSE [kind |-> "Ok", command |-> CachedBinary, arguments |-> <<>>,
              cwd |-> as_str(cfg.cwd),
              configuration |-> r.val.configuration, request |-> r.val.request,
              msg |-> ""]

\* get_binary from line 191 on, the binary path in hand
assemble(binary_path, cfg) ==
    LET r == request_args(cfg)
    IN  IF ~r.ok THEN BinaryErr(r.val)
        ELSE [kind |-> "Ok", command |-> binary_path, arguments |-> <<>>,
              cwd |-> as_str(cfg.cwd),
              configuration |-> r.val.configuration, request |-> r.val.request,
              msg |-> ""]

NoFetch == [ok |-> FALSE, val |-> ""]

\* cell_after_fetch that never fills the cell
cell_never_set(c, r) == c

\* cell_after_fetch that fills the cell with whatever the fetch gave, an
\* error as well
cell_set_on_failure(c, r) == IF c = None THEN r.val ELSE c

\* vsdbg_path after its fetch_vsdbg().await: `?` leaves on an error with the
\* cell untouched, get_or_init fills the cell if it is still empty
cell_after_fetch(c, r) == IF r.ok /\ c = None THEN r.val ELSE c

\* the configuration maps of a debug task
Configs ==
    [request : {Absent, Str("launch"), Str("attach"), Str("Attach"), Num("1")},
     program : {Absent, Str("/w/bin/App.dll"), Null},
     processId : {Absent, Num("4242")},
     console : {Absent, Str("externalTerminal"), Null},
     cwd : {Absent, Str("/w")}]

\* what `which vsdbg` may answer: it cannot be run, it finds nothing, it
\* prints a path, it prints a path and fails, it succeeds and prints nothing
WhichAnswers ==
    { [ok |-> FALSE, success |-> FALSE, out |-> ""],
      [ok |-> TRUE, success |-> FALSE, out |-> ""],
      [ok |-> TRUE, success |-> TRUE, out |-> "/usr/bin/vsdbg\n"],
      [ok |-> TRUE, success |-> FALSE, out |-> "/usr/bin/vsdbg\n"],
      [ok |-> TRUE, success |-> TRUE, out |-> "\n"] }

BinUniverse == {"/usr/bin/vsdbg", CachedBinary}

UserPaths == {None, "/opt/vsdbg/vsdbg"}

AdpInit ==
    /\ config \in Configs
    /\ user_path \in UserPaths
    /\ which \in WhichAnswers
    /\ binFiles \in SUBSET BinUniverse
    /\ cell = None
    /\ apc = "start"
    /\ calls = 1
    /\ fetched = NoFetch
    /\ resolved = NoFetch
    /\ earlier = NoFetch
    /\ binary = NoBinary

AdpIdle ==
    /\ config = [request |-> Absent, program |-> Absent, processId |-> Absent,
                 console |-> Absent, cwd |-> Absent]
    /\ user_path = None
    /\ which = [ok |-> FALSE, success |-> FALSE, out |-> ""]
    /\ binFiles = {}
    /\ cell = None
    /\ apc = "idle"
    /\ calls = 0
    /\ fetched = NoFetch
    /\ resolved = NoFetch
    /\ earlier = NoFetch
    /\ binary = NoBinary

\* get_binary with a user_installed_path: no resolution, straight to request_args
GetBinaryWithUserPath ==
    /\ apc = "start" /\ user_path # None
    /\ binary' = assemble(user_path, config)
    /\ apc' = "done"
    /\ UNCHANGED <<config, user_path, which, binFiles, cell, calls, fetched, resolved,
                   earlier>>
    /\ UNCHANGED <<locVars, scnVars, slnVars, pkgVars, prsVars, accVars, conVars, treVars>>

\* get_binary without one, the cell already filled: vsdbg_path returns its path
GetBinaryFromCell ==
    /\ apc = "start" /\ user_path = None /\ cell # None
    /\ resolved' = Ok(cell)
    /\ binary' = assemble(cell, config)
    /\ apc' = "done"
    /\ UNCHANGED <<config, user_path, which, binFiles, cell, calls, fetched, earlier>>
    /\ UNCHANGED <<locVars, scnVars, slnVars, pkgVars, prsVars, accVars, conVars, treVars>>

\* get_binary without one, the cell empty: vsdbg_path calls fetch_vsdbg, which
\* awaits the output of `which`
StartWhich ==
    /\ apc = "start" /\ user_path = None /\ cell = None
    /\ apc' = "which"
    /\ UNCHANGED <<config, user_path, which, binFiles, cell, calls, fetched, resolved,
                   earlier, binary>>
    /\ UNCHANGED <<locVars, scnVars, slnVars, pkgVars, prsVars, accVars, conVars, treVars>>

\* `which` has answered: the rest of fetch_vsdbg, of vsdbg_path (the cell is
\* set if it is still empty) and of get_binary
WhichAnswered ==
    /\ apc = "which"
    /\ LET r == fetch_vsdbg(which, binFiles)
       IN  /\ fetched' = r
           /\ resolved' = r
           /\ cell' = cell_after_fetch(cell, r)
           /\ binary' = IF r.ok THEN assemble(r.val, config) ELSE BinaryErr(r.val)
    /\ apc' = "done"
    /\ UNCHANGED <<config, user_path, which, binFiles, calls, earlier>>
    /\ UNCHANGED <<locVars, scnVars, slnVars, pkgVars, prsVars, accVars, conVars, treVars>>

\* the next get_binary call on the same adapter, for the same debug task
NextCall ==
    /\ apc = "done" /\ calls < MaxCalls
    /\ calls' = calls + 1
    /\ user_path' \in UserPaths
    /\ apc' = "start"
    /\ fetched' = NoFetch
    /\ resolved' = NoFetch
    /\ earlier' = IF resolved # NoFetch THEN resolved ELSE earlier
    /\ binary' = NoBinary
    /\ UNCHANGED <<config, which, binFiles, cell>>
    /\ UNCHANGED <<locVars, scnVars, slnVars, pkgVars, prsVars, accVars, conVars, treVars>>

\* between two calls the machine changes: vsdbg is installed, removed or
\* moved, on the PATH or in the cache directory
EnvironmentChanges ==
    /\ apc = "start" /\ calls > 1
    /\ which' \in WhichAnswers
    /\ binFiles' \in SUBSET BinUniverse
    /\ <<which', binFiles'>> # <<which, binFiles>>
    /\ UNCHANGED <<config, user_path, cell, apc, calls, fetched, resolved, earlier,
                   binary>>
    /\ UNCHANGED <<locVars, scnVars, slnVars, pkgVars, prsVars, accVars, conVars, treVars>>

(***************************************************************************)
(* BinaryResolver: vsdbg_path called by concurrent sessions                *)
(***************************************************************************)
\* the sessions that call vsdbg_path on the one adapter
Callers == 1..MaxCalls

\* Ok(path) of line 72: the caller's own path, whatever the cell holds
vsdbg_path_after_init(c, r) == r

ConInit ==
    /\ vpc = [c \in Callers |-> "start"]
    /\ got = [c \in Callers |-> NoFetch]
    /\ returned = [c \in Callers |-> NoFetch]

ConIdle ==
    /\ vpc = [c \in Callers |-> "idle"]
    /\ got = [c \in Callers |-> NoFetch]
    /\ returned = [c \in Callers |-> NoFetch]

\* self.vsdbg_path.get() is Some(path): Ok(path.clone())
CallerFindsCell(c) ==
    /\ vpc[c] = "start" /\ cell # None
    /\ returned' = [returned EXCEPT ![c] = Ok(cell)]
    /\ vpc' = [vpc EXCEPT ![c] = "done"]
    /\ UNCHANGED got
    /\ UNCHANGED adpVars
    /\ UNCHANGED <<locVars, scnVars, slnVars, pkgVars, prsVars, accVars, treVars>>

\* self.vsdbg_path.get() is None: the caller goes on to fetch_vsdbg().await
CallerFindsCellEmpty(c) ==
    /\ vpc[c] = "start" /\ cell = None
    /\ vpc' = [vpc EXCEPT ![c] = "fetch"]
    /\ UNCHANGED <<got, returned>>
    /\ UNCHANGED adpVars
    /\ UNCHANGED <<locVars, scnVars, slnVars, pkgVars, prsVars, accVars, treVars>>

\* fetch_vsdbg().await?: the probe of the machine as it is now; an error
\* leaves vsdbg_path at once
CallerFetches(c) ==
    /\ vpc[c] = "fetch"
    /\ got' = [got EXCEPT ![c] = fetch_vsdbg(which, binFiles)]
    /\ returned' = [returned EXCEPT ![c] = IF got'[c].ok THEN @ ELSE got'[c]]
    /\ vpc' = [vpc EXCEPT ![c] = IF got'[c].ok THEN "init" ELSE "done"]
    /\ UNCHANGED adpVars
    /\ UNCHANGED <<locVars, scnVars, slnVars, pkgVars, prsVars, accVars, treVars>>

\* let _ = get_or_init(|| async { path.clone() }).await; Ok(path)
CallerInits(c) ==
    /\ vpc[c] = "init"
    /\ cell' = cell_after_fetch(cell, got[c])
    /\ returned' = [returned EXCEPT ![c] = vsdbg_path_after_init(cell', got[c])]
    /\ vpc' = [vpc EXCEPT ![c] = "done"]
    /\ UNCHANGED got
    /\ UNCHANGED <<config, user_path, which, binFiles, apc, calls, fetched, resolved,
                   earlier, binary>>
    /\ UNCHANGED <<locVars, scnVars, slnVars, pkgVars, prsVars, accVars, treVars>>

\* while a call is under way the machine changes: vsdbg is installed,
\* removed or moved
DebuggerMoves ==
    /\ \E c \in Callers : vpc[c] \notin {"idle", "done"}
    /\ which' \in WhichAnswers
    /\ binFiles' \in SUBSET BinUniverse
    /\ <<which', binFiles'>> # <<which, binFiles>>
    /\ UNCHANGED <<config, user_path, cell, apc, calls, fetched, resolved, earlier,
                   binary>>
    /\ UNCHANGED conVars
    /\ UNCHANGED <<locVars, scnVars, slnVars, pkgVars, prsVars, accVars, treVars>>

\* the adapter before any call, on any machine
AdpFresh ==
    /\ config = [request |-> Absent, program |-> Absent, processId |-> Absent,
                 console |-> Absent, cwd |-> Absent]
    /\ user_path = None
    /\ which \in WhichAnswers
    /\ binFiles \in SUBSET BinUniverse
    /\ cell = None
    /\ apc = "idle"
    /\ calls = 0
    /\ fetched = NoFetch
    /\ resolved = NoFetch
    /\ earlier = NoFetch
    /\ binary = NoBinary

(***************************************************************************)
(* Specifications                                                          *)
(***************************************************************************)
LocIdle ==
    /\ task = [cwd |-> Cwd, args |-> <<"build">>]
    /\ spawned = <<>>
    /\ rpc = "idle"
    /\ childOut = <<>> /\ childErr = <<>>
    /\ code = 0
    /\ wOut = 0 /\ wErr = 0
    /\ pipeOut = <<>> /\ pipeErr = <<>>
    /\ exited = FALSE
    /\ stdout = "" /\ stderr = ""
    /\ files = {}
    /\ probed = {}
    /\ result = NoResult

InitRun == LocInit /\ ScnIdle /\ SlnIdle /\ AdpIdle /\ PkgIdle /\ PrsIdle /\ AccIdle /\ ConIdle /\ TreIdle

NextRun ==
    \/ Spawn
    \/ ChildWriteOut
    \/ ChildWriteErr
    \/ ChildExit
    \/ ReadStdout
    \/ StdoutEof
    \/ ReadStderr
    \/ StderrEof
    \/ WaitStatus

\* the task locator running one build
SpecRun == InitRun /\ [][NextRun]_vars

InitScenario == ScnInit /\ LocIdle /\ SlnIdle /\ AdpIdle /\ PkgIdle /\ PrsIdle /\ AccIdle /\ ConIdle /\ TreIdle

NextScenario == CreateScenario

\* the task locator turning one task template into a debug scenario
SpecScenario == InitScenario /\ [][NextScenario]_vars

InitSolution == SlnInit /\ LocIdle /\ ScnIdle /\ AdpIdle /\ PkgIdle /\ PrsIdle /\ AccIdle /\ ConIdle /\ TreIdle

NextSolution ==
    \/ LoadSolution
    \/ \E i \in 1..MaxSlnLines : DeployContextMenu(i)
    \/ SetAsStartupProject
    \/ UnsetStartupProject
    \/ DismissMenu

\* the panel loading one solution file, then its startup-project menu
SpecSolution == InitSolution /\ [][NextSolution]_vars

InitAdapter == AdpInit /\ LocIdle /\ ScnIdle /\ SlnIdle /\ PkgIdle /\ PrsIdle /\ AccIdle /\ ConIdle /\ TreIdle

NextAdapter ==
    \/ GetBinaryWithUserPath
    \/ GetBinaryFromCell
    \/ StartWhich
    \/ WhichAnswered
    \/ NextCall
    \/ EnvironmentChanges

\* the debug adapter answering get_binary calls, one after another
SpecAdapter == InitAdapter /\ [][NextAdapter]_vars

InitPackages == PkgInit /\ LocIdle /\ ScnIdle /\ SlnIdle /\ AdpIdle /\ PrsIdle /\ AccIdle /\ ConIdle /\ TreIdle

NextPackages == ParseCsprojPackages

\* parse_csproj_packages reading one project descriptor
SpecPackages == InitPackages /\ [][NextPackages]_vars

InitParse == PrsInit /\ LocIdle /\ ScnIdle /\ SlnIdle /\ AdpIdle /\ PkgIdle /\ AccIdle /\ ConIdle /\ TreIdle

NextParse ==
    \/ ParseFirst
    \/ ParseSecond

\* SolutionFile::parse called on one text, then on the same or another one
SpecParse == InitParse /\ [][NextParse]_vars

InitAccessors == AccInit /\ LocIdle /\ ScnIdle /\ SlnIdle /\ AdpIdle /\ PkgIdle /\ PrsIdle /\ ConIdle /\ TreIdle

NextAccessors == GetExecutableProjects

\* get_executable_projects called on one parsed solution
SpecAccessors == InitAccessors /\ [][NextAccessors]_vars

InitTask == TaskInit /\ ScnIdle /\ SlnIdle /\ AdpIdle /\ PkgIdle /\ PrsIdle /\ AccIdle /\ ConIdle /\ TreIdle

NextTask ==
    \/ RunWithoutCwd
    \/ Spawn
    \/ ChildExit
    \/ StdoutEof
    \/ StderrEof
    \/ WaitStatus

\* the task locator's run() on any task, from the call to its result
SpecTask == InitTask /\ [][NextTask]_vars

InitConcurrent == ConInit /\ AdpFresh /\ LocIdle /\ ScnIdle /\ SlnIdle /\ PkgIdle /\ PrsIdle /\ AccIdle /\ TreIdle

NextConcurrent ==
    \/ \E c \in Callers : CallerFindsCell(c)
    \/ \E c \in Callers : CallerFindsCellEmpty(c)
    \/ \E c \in Callers : CallerFetches(c)
    \/ \E c \in Callers : CallerInits(c)
    \/ DebuggerMoves

\* concurrent sessions resolving the debugger on one adapter
SpecConcurrent == InitConcurrent /\ [][NextConcurrent]_vars

InitPipeline == ScnInit /\ LocIdle /\ SlnIdle /\ AdpIdle /\ PkgIdle /\ PrsIdle /\ AccIdle /\ ConIdle /\ TreIdle

NextPipeline ==
    \/ CreateScenario
    \/ ResolveTask
    \/ Spawn

\* a task template through both phases of the locator: create_scenario, then
\* run() on the build task of the scenario, up to the spawn of the build
SpecPipeline == InitPipeline /\ [][NextPipeline]_vars

InitTree == TreInit /\ LocIdle /\ ScnIdle /\ AdpIdle /\ PkgIdle /\ PrsIdle /\ AccIdle /\ ConIdle

NextTree ==
    \/ \E i \in 1..(1 + 2 * MaxSlnLines), modifier \in BOOLEAN : ClickSolution(i, modifier)
    \/ \E i \in 1..(1 + 2 * MaxSlnLines), modifier \in BOOLEAN : ClickProject(i, modifier)
    \/ \E i \in 1..(1 + 2 * MaxSlnLines), modifier \in BOOLEAN : ClickPackage(i, modifier)

\* the loaded panel under left clicks on the nodes of its tree
SpecTree == InitTree /\ [][NextTree]_vars

(***************************************************************************)
(* Claims                                                                  *)
(***************************************************************************)
\* what the build process writes to each stream, as text
ChildStdout == Concat(childOut)

ChildStderr == Concat(childErr)

\* C1's qualifying line: the text after the first "->", trimmed, ends in .dll
\* or .exe and, resolved against the working directory, exists on disk
ArrowTarget(line) == join(task.cwd, trim(Suffix(line, find(line, "->") + 2)))

Qualifies(line) ==
    /\ contains(line, "->")
    /\ \E ext \in {".dll", ".exe"} : ends_with(trim(Suffix(line, find(line, "->") + 2)), ext)
    /\ exists(files, ArrowTarget(line))

GoodLines == {i \in 1..Len(lines(ChildStdout)) : Qualifies(lines(ChildStdout)[i])}

FirstGood == CHOOSE i \in GoodLines : \A j \in GoodLines : i <= j

\* C1: when the build exits with status 0 and some stdout line qualifies,
\* run() returns Launch with the path of the first qualifying line as its
\* program, whatever earlier arrow lines say and whatever the fallback
\* directories hold.
C1_FirstArrowLineWins ==
    (rpc = "done" /\ code = 0 /\ GoodLines # {})
        => /\ result.kind = "Launch"
           /\ result.program = ArrowTarget(lines(ChildStdout)[FirstGood])

\* C1 happens: the first arrow line is skipped, the second is relative and
\* exists, and a fallback directory holds a .dll
C1_Witness ==
    /\ rpc = "done" /\ code = 0
    /\ GoodLines # {} /\ FirstGood = 2
    /\ contains(lines(ChildStdout)[1], "->")
    /\ "/w/bin/Debug/F.dll" \in files
    /\ result = Launch("/w/b.exe", Cwd)

\* the child cannot go on: what is left to write goes to stderr, whose pipe is full
ChildBlockedOnStderr ==
    /\ rpc # "start" /\ ~exited
    /\ wOut = Len(childOut)
    /\ wErr < Len(childErr) /\ Len(pipeErr) >= PipeCap

\* run() cannot go on: it reads stdout, which is empty and still open
RunBlockedOnStdout == rpc = "read_stdout" /\ pipeOut = <<>> /\ ~exited

\* C2: no state is reachable in which the child is blocked writing to a full,
\* unread pipe while run() is blocked reading the other stream.
C2_NoPipeDeadlock == ~(ChildBlockedOnStderr /\ RunBlockedOnStdout)

\* C8: when the build exits with a non-zero status, run() fails with an error
\* whose message contains all the child wrote to stderr, and asks the file
\* system nothing.
C8_BuildFailureCarriesStderr ==
    (rpc = "done" /\ code # 0)
        => /\ result.kind = "Err"
           /\ contains(result.msg, ChildStderr)
           /\ probed = {}

\* C8 happens: a failed build that wrote to stderr, with a qualifying arrow
\* line on stdout
C8_Witness ==
    /\ rpc = "done" /\ code # 0
    /\ ChildStderr # "" /\ GoodLines # {}
    /\ result.kind = "Err"

\* C6: create_scenario returns none exactly when the command is not "dotnet",
\* there is no argument, the first argument is not run, r, build or test, or
\* it is test without a "--no-build" argument.
C6_ScenarioAccepted ==
    spc = "done"
        => (scenario = {}
              <=> \/ template.command # "dotnet"
                  \/ Len(template.args) = 0
                  \/ template.args[1] \notin {"run", "r", "build", "test"}
                  \/ /\ template.args[1] = "test"
                     /\ \A i \in 1..Len(template.args) : template.args[i] # "--no-build")

\* C6 happens: a test template with --no-build is accepted
C6_Witness ==
    /\ spc = "done"
    /\ template.command = "dotnet"
    /\ Len(template.args) = 2 /\ template.args[1] = "test" /\ template.args[2] = "--no-build"
    /\ scenario # {}

\* the task template the returned scenario carries in its build step
Carried == (CHOOSE s \in scenario : TRUE).build.task_template

\* C7: for run (or r) the carried template is the input with argument 0 set
\* to "build" and nothing else changed; for build and accepted test it is the
\* input.
C7_OnlyActionRewritten ==
    (spc = "done" /\ scenario # {})
        => IF template.args[1] \in {"run", "r"}
           THEN /\ Len(Carried.args) = Len(template.args)
                /\ Carried.args[1] = "build"
                /\ \A i \in 2..Len(template.args) : Carried.args[i] = template.args[i]
                /\ Carried.label = template.label
                /\ Carried.command = template.command
                /\ Carried.cwd = template.cwd
           ELSE Carried = template

\* C7 happens: "dotnet r run" becomes "dotnet build run"
C7_Witness ==
    /\ spc = "done"
    /\ template.args = <<"r", "run">>
    /\ scenario # {}
    /\ Carried.args = <<"build", "run">>

\* the project-declaration lines of the solution text: those that, trimmed,
\* begin with Project("
RECURSIVE DeclLinesOf(_)
DeclLinesOf(ls) ==
    IF ls = <<>> THEN <<>>
    ELSE (IF starts_with(trim(Head(ls)), "Project(\"") THEN <<trim(Head(ls))>> ELSE <<>>)
             \o DeclLinesOf(Tail(ls))

DeclLines == DeclLinesOf(lines(content))

\* the identifier a project-declaration line gives in braces for the project:
\* the text between its last "{" and the "}" that closes it
BracedGuid(line) == extract_guid(Suffix(line, rfind(line, "{")))

\* C3: a legacy-dialect text with N project-declaration lines parses to
\* exactly N projects, in the order of the lines, each with the identifier
\* its line gives in braces as guid.
C3_OneProjectPerDeclaration ==
    (lpc = "done" /\ ~is_slnx(content))
        => /\ solution # {}
           /\ Len(TheSolution.projects) = Len(DeclLines)
           /\ \A i \in 1..Len(DeclLines) :
                  TheSolution.projects[i].guid = BracedGuid(DeclLines[i])

\* C4: whenever the panel's solution has a startup project, it is the guid of
\* one of the solution's projects, so get_startup_project() finds it.
C4_StartupProjectIsAProject ==
    (solution # {} /\ TheSolution.startup_project # None)
        => /\ \E i \in 1..Len(TheSolution.projects) :
                  TheSolution.projects[i].guid = TheSolution.startup_project
           /\ get_startup_project(TheSolution) # {}

\* C5: no two projects of a parsed solution have the same guid.
C5_GuidsUnique ==
    solution # {}
        => \A i, j \in 1..Len(TheSolution.projects) :
               i # j => TheSolution.projects[i].guid # TheSolution.projects[j].guid

\* the request kind as the claim words it: attach only for the string "attach"
IsLaunch == config.request # Str("attach")

ProgramRequiredFailure == binary.kind = "Err" /\ binary.msg = ProgramRequiredMessage

\* C9 as stated: get_binary fails with "'program' is required" exactly when
\* the request is a launch and the map has no "program"; attach with a
\* "processId" and no "program" succeeds with request kind attach.
C9_AsStated ==
    apc = "done"
        => /\ ProgramRequiredFailure <=> (IsLaunch /\ config.program = Absent)
           /\ (~IsLaunch /\ config.processId # Absent /\ config.program = Absent)
                  => (binary.kind = "Ok" /\ binary.request = "attach")

\* a binary path is in hand: the caller gave one, or vsdbg_path resolved one
BinaryAvailable == user_path # None \/ cell # None

\* C9, amended: when a debugger binary path is available (given by the caller
\* or resolved by vsdbg_path), get_binary fails with "'program' is required"
\* exactly when the request is a launch and the map has no "program", and
\* attach with a "processId" and no "program" succeeds with request kind
\* attach; when none is available get_binary fails with the "vsdbg not found"
\* error whatever the map holds.
C9_ProgramRequiredForLaunch ==
    apc = "done"
        => IF BinaryAvailable
           THEN /\ ProgramRequiredFailure <=> (IsLaunch /\ config.program = Absent)
                /\ (~IsLaunch /\ config.processId # Absent /\ config.program = Absent)
                       => (binary.kind = "Ok" /\ binary.request = "attach")
           ELSE binary.kind = "Err" /\ binary.msg = NotFoundMessage

\* C9 happens: no path is given, vsdbg_path resolves the cached debugger, and
\* an attach request with a processId and no program is answered with it
C9_Witness ==
    /\ apc = "done" /\ user_path = None
    /\ config.request = Str("attach") /\ config.processId # Absent
    /\ config.program = Absent
    /\ binary.kind = "Ok" /\ binary.request = "attach" /\ binary.command = CachedBinary

\* the PATH lookup succeeded with non-empty output naming an existing path
PathLookupHit ==
    which.ok /\ which.success /\ trim(which.out) # "" /\ exists(binFiles, trim(which.out))

\* C10: fetch_vsdbg returns the path the PATH lookup reports when the lookup
\* succeeds with non-empty output naming an existing path; otherwise the
\* executable in the cache directory when that exists; otherwise the
\* "vsdbg not found" error.  A PATH hit wins over a cached binary.
C10_ResolutionOrder ==
    fetched # NoFetch
        => /\ PathLookupHit => fetched = Ok(trim(which.out))
           /\ (~PathLookupHit /\ exists(binFiles, CachedBinary)) => fetched = Ok(CachedBinary)
           /\ (~PathLookupHit /\ ~exists(binFiles, CachedBinary)) => fetched = Fail(NotFoundMessage)

\* C10 happens: vsdbg is on the PATH and in the cache directory, and the PATH
\* hit is returned
C10_Witness ==
    /\ fetched = Ok("/usr/bin/vsdbg")
    /\ PathLookupHit
    /\ exists(binFiles, CachedBinary)

\* C11: once a vsdbg_path call has succeeded with p the cell holds p and is
\* never changed or emptied again, and every later call without a user path
\* returns p without running fetch_vsdbg (no PATH lookup, no look at the
\* disk), whatever has happened to the binaries since.
C11_SuccessIsMemoized ==
    [][ /\ (resolved' # resolved /\ resolved'.ok) => cell' = resolved'.val
        /\ cell # None => cell' = cell
        /\ (cell # None /\ user_path = None /\ apc = "start" /\ apc' # "start")
               => (apc' = "done" /\ resolved' = Ok(cell) /\ fetched' = NoFetch)
        /\ (earlier.ok /\ resolved' # resolved /\ resolved' # NoFetch)
               => resolved' = earlier ]_vars

\* C11 happens: the first call resolved the cached debugger; it has since
\* been removed and another one installed on the PATH; the second call
\* returns the first path without a fetch
C11_Witness ==
    /\ apc = "done" /\ calls = 2 /\ user_path = None
    /\ earlier = Ok(CachedBinary)
    /\ binFiles = {"/usr/bin/vsdbg"} /\ PathLookupHit
    /\ resolved = Ok(CachedBinary) /\ cell = CachedBinary
    /\ fetched = NoFetch

\* the debugger can be found now: on the PATH or in the cache directory
Discoverable == PathLookupHit \/ exists(binFiles, CachedBinary)

\* C12: a failure is not memoized.  When vsdbg_path has returned the
\* not-found error the cell is still empty, and the next vsdbg_path call
\* runs fetch_vsdbg again against the machine as it is then, succeeding if
\* the debugger has become discoverable.
C12_FailureIsNotMemoized ==
    /\ (apc = "done" /\ resolved = Fail(NotFoundMessage)) => cell = None
    /\ (apc = "done" /\ user_path = None /\ earlier = Fail(NotFoundMessage))
           => /\ fetched = fetch_vsdbg(which, binFiles)
              /\ resolved = fetched
              /\ Discoverable => (resolved.ok /\ cell = resolved.val)

\* C12 happens: the first call failed, vsdbg was then installed on the PATH,
\* and the second call finds it
C12_Witness ==
    /\ apc = "done" /\ calls = 2 /\ user_path = None
    /\ earlier = Fail(NotFoundMessage)
    /\ resolved = Ok("/usr/bin/vsdbg")
    /\ cell = "/usr/bin/vsdbg"
\* C13: get_binary with a caller-supplied path p never runs vsdbg_path (the
\* cell is not read) or fetch_vsdbg (nothing is probed), leaves the cell as
\* it is, launches p when it succeeds, and can fail only with the error of
\* request_args, never with the not-found error.
C13_UserPathBypassesResolution ==
    [][ (user_path # None /\ apc = "start" /\ apc' = "done")
            => /\ resolved' = NoFetch /\ fetched' = NoFetch
               /\ cell' = cell
               /\ binary'.kind = "Ok" => binary'.command = user_path
               /\ binary'.kind = "Err" => binary'.msg = ProgramRequiredMessage
               /\ binary'.kind \in {"Ok", "Err"} ]_vars

\* C13 happens: the cell holds an earlier resolution, no debugger can be
\* found any more, and the call with a user path launches that path
C13_Witness ==
    /\ apc = "done" /\ user_path = "/opt/vsdbg/vsdbg"
    /\ cell = CachedBinary /\ ~Discoverable
    /\ resolved = NoFetch /\ fetched = NoFetch
    /\ binary.kind = "Ok" /\ binary.command = "/opt/vsdbg/vsdbg"
\* the conventional output directories, in the order C14 gives them
FallbackOrder ==
    << "bin/Debug", "bin/Release", "bin/Debug/net6.0", "bin/Debug/net5.0",
       "bin/Debug/net8.0", "bin/Release/net6.0", "bin/Release/net5.0",
       "bin/Release/net8.0" >>

\* the regular files directly inside directory i of that list, under the
\* working directory, whose name ends in .dll
DllsOfDir(i) ==
    {f \in files : /\ starts_with(f, task.cwd \o "/" \o FallbackOrder[i] \o "/")
                   /\ ~contains(Suffix(f, Len(task.cwd \o "/" \o FallbackOrder[i] \o "/") + 1), "/")
                   /\ ends_with(f, ".dll")}

DirsWithDll == {i \in 1..Len(FallbackOrder) : DllsOfDir(i) # {}}

C15_NoArtifactIsAnError ==
    /\ (rpc = "done" /\ code = 0 /\ GoodLines = {} /\ DirsWithDll = {})
           => /\ result.kind = "Err"
              /\ contains(result.msg, ChildStdout)
    /\ (rpc = "done" /\ result.kind = "Launch") => exists(files, result.program)

\* C15 happens: the build succeeded and announced /a.dll, which is not on
\* disk; other files are, none of them a .dll of an output directory
C15_Witness ==
    /\ rpc = "done" /\ code = 0
    /\ contains(ChildStdout, "A -> /a.dll") /\ "/a.dll" \notin files
    /\ "/c.txt" \in files
    /\ GoodLines = {} /\ DirsWithDll = {}
    /\ result.kind = "Err" /\ contains(result.msg, "A -> /a.dll")
\* the entries C16 expects of the descriptor written from `refs`
ExpectedPackages == [i \in 1..Len(refs) |-> [id |-> refs[i].id, version |-> refs[i].version]]

DescriptorFails(f) == f \notin DOMAIN disk \/ disk[f] \in {None, BrokenDescriptor}

\* C17: a project whose descriptor cannot be read or parsed does not abort
\* the load.  Whenever the solution text parses, the parsed solution is
\* installed with all its projects; a project whose descriptor fails has an
\* empty package list and every other project has the packages of its own
\* descriptor.
C17_PackageFailuresAreSwallowed ==
    (lpc = "done" /\ parsed.ok)
        => /\ solution # {}
           /\ Len(TheSolution.projects) = Len(parsed.val.projects)
           /\ \A i \in 1..Len(TheSolution.projects) :
                  LET f == join(BaseDir, TheSolution.projects[i].path)
                  IN  TheSolution.projects[i].packages =
                          IF DescriptorFails(f) THEN <<>>
                          ELSE <<[id |-> file_stem(f) \o ".Dep", version |-> "1.0"]>>

\* C17 happens: a solution of two projects is installed, the descriptor of
\* the first is cut off, and the second has its package
C17_Witness ==
    /\ lpc = "done" /\ solution # {}
    /\ Len(TheSolution.projects) = 2
    /\ TheSolution.projects[1].path = "App.csproj"
    /\ disk["/ws/App.csproj"] = BrokenDescriptor
    /\ TheSolution.projects[1].packages = <<>>
    /\ TheSolution.projects[2].packages # <<>>
\* the markup dialect is selected: after leading white space the content
\* begins with "<?xml" or "<Solution"
MarkupSelected(t) ==
    \E prefix \in {"<?xml", "<Solution"} :
        \E i \in 1..(Len(t) - Len(prefix) + 1) :
            /\ SubSeq(t, i, i + Len(prefix) - 1) = prefix
            /\ \A j \in 1..(i - 1) : IsWhite(Ch(t, j))

\* some occurrence of "<Project" has no ">" after it
DanglingProjectTag(t) ==
    \E i \in 1..(Len(t) - 7) :
        /\ SubSeq(t, i, i + 7) = "<Project"
        /\ \A j \in (i + 8)..Len(t) : Ch(t, j) # ">"

\* C18: parse returns an error exactly when the markup dialect is selected
\* and some "<Project" has no ">" after it; every other content, legacy
\* content with malformed or unknown lines included, gives a SolutionFile.
C18_ErrorOnlyOnUnclosedTag ==
    /\ ppc \in {"once", "twice"}
           => (~first.ok <=> (MarkupSelected(doc) /\ DanglingProjectTag(doc)))
    /\ ppc = "twice"
           => (~second.ok <=> (MarkupSelected(again) /\ DanglingProjectTag(again)))

\* C18 happens: a markup solution with a complete project tag and then one
\* cut off is refused
C18_Witness ==
    /\ ppc = "once"
    /\ contains(doc, "<Project Path=\"Lib.csproj\" />\n<Project Path=\"T.csproj\"\n")
    /\ DanglingProjectTag(doc)
    /\ first = Fail("Invalid XML: unclosed Project tag")

RECURSIVE SeenConfigurations(_, _)
SeenConfigurations(ls, seen) ==
    IF ls = <<>> THEN seen
    ELSE LET l == trim(Head(ls))
             name == IF starts_with(l, "Debug|") THEN "Debug"
                     ELSE IF starts_with(l, "Release|") THEN "Release"
                     ELSE ""
         IN  SeenConfigurations(Tail(ls),
                                IF name = "" \/ name \in Range(seen) THEN seen
                                ELSE Append(seen, name))

\* C20: a legacy content without configuration lines, and every markup
\* content, parses to the configurations <<"Debug", "Release">>; a legacy
\* content with configuration lines parses to their distinct names in
\* first-seen order.
C20_Configurations ==
    (ppc \in {"once", "twice"} /\ first.ok)
        => first.val.configurations =
               IF MarkupSelected(doc) \/ SeenConfigurations(lines(doc), <<>>) = <<>>
               THEN <<"Debug", "Release">>
               ELSE SeenConfigurations(lines(doc), <<>>)

\* C20 happens: Release is seen before Debug, and seen again after it
C20_Witness ==
    /\ ppc = "once" /\ first.ok
    /\ ~MarkupSelected(doc)
    /\ Len(lines(doc)) = 3
    /\ starts_with(trim(lines(doc)[1]), "Release|")
    /\ starts_with(trim(lines(doc)[2]), "Debug|")
    /\ starts_with(trim(lines(doc)[3]), "Release|")
    /\ first.val.configurations = <<"Release", "Debug">>

\* a startup-project marker line of the legacy dialect: a line that names
\* StartupProject and is not a project declaration
IsMarkerLine(l) ==
    contains(trim(l), "StartupProject") /\ ~starts_with(trim(l), "Project(\"")

\* the text has a marker line; the markup dialect has none (parse_slnx never
\* reads one)
HasMarkerLine(t) ==
    ~is_slnx(t) /\ \E i \in 1..Len(lines(t)) : IsMarkerLine(lines(t)[i])

\* C21: a text of either dialect without a startup-project marker line
\* parses to a solution whose startup_project is the guid of its first
\* project, which get_startup_project() returns; without marker and without
\* projects startup_project is unset.
C21_DefaultStartupIsFirstProject ==
    (lpc = "done" /\ parsed.ok /\ ~HasMarkerLine(content))
        => IF parsed.val.projects = <<>>
           THEN parsed.val.startup_project = None
           ELSE /\ parsed.val.startup_project = parsed.val.projects[1].guid
                /\ get_startup_project(parsed.val) = {parsed.val.projects[1]}

\* the name has the four characters T, e, s, t in a row somewhere
HasTest(name) ==
    \E i \in 1..Len(name) :
        i + 3 <= Len(name)
            /\ Ch(name, i) = "T" /\ Ch(name, i + 1) = "e"
            /\ Ch(name, i + 2) = "s" /\ Ch(name, i + 3) = "t"

\* the positions in opened.projects of the projects without Test in the name
Executable == {i \in 1..Len(opened.projects) : ~HasTest(opened.projects[i].name)}

\* C22: get_executable_projects() returns exactly the projects whose name
\* does not contain "Test" (capital T), in their original order; MyApp.Tests
\* is never returned, MyApp always.
C22_ExecutableProjects ==
    xpc = "done"
        => /\ Len(executables) = Cardinality(Executable)
           /\ \A i \in Executable :
                  executables[Cardinality({j \in Executable : j <= i})] = opened.projects[i]
           /\ \A k \in 1..Len(executables) : executables[k].name # "MyApp.Tests"
           /\ \A i \in 1..Len(opened.projects) :
                  opened.projects[i].name = "MyApp"
                      => \E k \in 1..Len(executables) : executables[k] = opened.projects[i]

\* C22 happens: of contest, UnitTest and MyApp, in this order, the first and
\* the last are returned
C22_Witness ==
    /\ xpc = "done"
    /\ Len(opened.projects) = 3
    /\ opened.projects[1].name = "contest"
    /\ opened.projects[2].name = "UnitTest"
    /\ opened.projects[3].name = "MyApp"
    /\ executables = <<opened.projects[1], opened.projects[3]>>

\* C23: run() on a task without working directory fails with the
\* working-directory-required error; no process is spawned for such a task
\* and the file system is never asked about a path.
C23_WorkingDirectoryRequired ==
    task.cwd = None
        => /\ spawned = <<>>
           /\ probed = {}
           /\ ~exited
           /\ rpc \in {"start", "done"}
           /\ rpc = "done" => result = Err("Working directory required for dotnet build")

\* C23 happens: run() has returned on a task without working directory
C23_Witness ==
    /\ task.cwd = None
    /\ task.args = <<"build", "App.csproj">>
    /\ rpc = "done"
    /\ result.kind = "Err"

\* the position of the first "--" among the task's arguments, one past the
\* last argument when there is none
FirstSeparator ==
    LET at == {i \in 1..Len(task.args) : task.args[i] = "--"}
    IN  IF at = {} THEN Len(task.args) + 1 ELSE CHOOSE i \in at : \A j \in at : i <= j

C24_ConsoleDefault ==
    binary.kind = "Ok"
        => /\ \A key \in DOMAIN config \ {"console"} :
                  binary.configuration[key] = config[key]
           /\ DOMAIN binary.configuration = DOMAIN config
           /\ config.console = Absent
                  => binary.configuration.console = Str("integratedTerminal")
           /\ config.console # Absent => binary.configuration.console = config.console

\* C24 happens: a launch request whose map has a console entry, null, keeps
\* it as it is
C24_Witness ==
    /\ binary.kind = "Ok"
    /\ binary.request = "launch"
    /\ config.console = Null
    /\ binary.configuration.console = Null
    /\ binary.configuration.program = Str("/w/bin/App.dll")

\* where the element that opens at the head of `from_ref` ends by C25: at the
\* nearer of "/>" and "</PackageReference>"; 0 when neither occurs
NearerEnd(from_ref) ==
    LET self_closing == find(from_ref, "/>")
        closing_tag  == find(from_ref, "</PackageReference>")
    IN  IF self_closing = 0 THEN closing_tag
        ELSE IF closing_tag = 0 THEN self_closing
        ELSE IF self_closing < closing_tag THEN self_closing ELSE closing_tag

\* the entries of the elements of a text, each element ending at NearerEnd
RECURSIVE NearerEntries(_)
NearerEntries(remaining) ==
    LET ref_start == find(remaining, "<PackageReference")
        ref_end   == IF ref_start = 0 THEN 0 ELSE NearerEnd(Suffix(remaining, ref_start))
        element   == SubSeq(remaining, ref_start, ref_start + ref_end)
        id        == attribute_value(element, "Include=\"")
    IN  IF ref_start = 0 \/ ref_end = 0 THEN <<>>
        ELSE (IF id = None THEN <<>>
              ELSE <<[id |-> id, version |-> attribute_value(element, "Version=\"")]>>)
                 \o NearerEntries(Suffix(remaining, ref_start + ref_end + 1))

\* C25: parse_csproj_packages ends each PackageReference element at the
\* nearer of "/>" and "</PackageReference>" after its opening, so its
\* entries are those of the elements so delimited: one per element, with the
\* element's own Include and Version, also when an element with a closing
\* tag is followed by a self-closing one.
C25_NearerClosingEndsElement ==
    kpc = "done" => packages = Ok(NearerEntries(descriptor))

\* C27: whatever the interleaving of the callers and the changes of the
\* machine between their probes, the vsdbg_path calls that succeeded all
\* returned the same path, and it is the path in the cell.
C27_ConcurrentCallersAgree ==
    \A c \in Callers :
        (vpc[c] = "done" /\ returned[c].ok)
            => /\ returned[c].val = cell
               /\ \A d \in Callers :
                      (vpc[d] = "done" /\ returned[d].ok) => returned[d].val = returned[c].val

\* the identifiers the marker lines of the solution text give: the first
\* brace-delimited token of each marker line that has one
MarkerGuids ==
    {extract_guid(trim(lines(content)[i])) :
        i \in {j \in 1..Len(lines(content)) :
                  IsMarkerLine(lines(content)[j])
                      /\ extract_guid(trim(lines(content)[j])) # None}}

\* C28: in the legacy dialect a project-declaration line never sets
\* startup_project: it is the identifier of a marker line when the text has
\* one, and otherwise the first project's guid (unset without projects),
\* whatever the projects are named.
C28_OneRolePerLine ==
    (lpc = "done" /\ ~is_slnx(content) /\ parsed.ok)
        => IF MarkerGuids # {}
           THEN parsed.val.startup_project \in MarkerGuids
           ELSE parsed.val.startup_project =
                    IF parsed.val.projects = <<>> THEN None
                    ELSE parsed.val.projects[1].guid

\* C29: when create_scenario has accepted a template whose action is test,
\* the command run() spawns for the scenario's build task still carries
\* --no-build.
C29_NoBuildSurvives ==
    (template.command = "dotnet" /\ template.args # <<>> /\ template.args[1] = "test"
         /\ scenario # {} /\ spawned # <<>>)
        => "--no-build" \in Range(spawned[1].args)

\* the projects with expanded packages are expanded projects, and every
\* package node on screen belongs to an expanded project
PackagesWithinProjects ==
    /\ expanded_packages \subseteq expanded_projects
    /\ \A i \in 1..Len(Items) :
           Items[i].kind = "Package" => Items[i].guid \in expanded_projects

\* what a click does to the projects of the solution: a project that the
\* click collapses has its packages collapsed, and a project that the click
\* expands has its packages expanded exactly when it has a package
ClickKeepsPackagesWithProjects ==
    solution # {}
        => \A i \in 1..Len(TheSolution.projects) :
               LET project == TheSolution.projects[i]
               IN  /\ (project.guid \in expanded_projects
                           /\ project.guid \notin expanded_projects')
                          => project.guid \notin expanded_packages'
                   /\ (project.guid \notin expanded_projects
                           /\ project.guid \in expanded_projects')
                          => (project.guid \in expanded_packages'
                                  <=> project.packages # <<>>)

\* C30: after any sequence of left clicks on the nodes of the tree, the
\* projects with expanded packages are among the expanded projects:
\* collapsing a project collapses its packages, expanding a project expands
\* its packages exactly when it has at least one package, and package nodes
\* are on screen only under expanded projects.
C30_PackagesFollowProjects ==
    []PackagesWithinProjects /\ [][ClickKeepsPackagesWithProjects]_vars

====
